---- MODULE Spec2Model ----
(***************************************************************************)
(* Model of the deliberation core of projectchimera:                       *)
(*   - EnhancedAgentOrchestrator.generate_enhanced_memo (advanced path,    *)
(*     simplified fallback, consistency validator),                        *)
(*   - AgentOrchestrator.generate_memo (basic path),                       *)
(*   - the free-text signal extraction functions they call.                *)
(* Texts are sequences of one-character strings, so that substring tests,  *)
(* case conversion and the regular expressions of the source are computed  *)
(* character by character.                                                 *)
(***************************************************************************)
EXTENDS Integers, Sequences, FiniteSets, TLC

\* ------------------------------------------------------------------------
\* Characters and texts
\* ------------------------------------------------------------------------
LowerAlpha == <<"a","b","c","d","e","f","g","h","i","j","k","l","m","n","o","p","q","r","s","t","u","v","w","x","y","z">>

UpperAlpha == <<"A","B","C","D","E","F","G","H","I","J","K","L","M","N","O","P","Q","R","S","T","U","V","W","X","Y","Z">>

DigitChars == <<"0","1","2","3","4","5","6","7","8","9">>

ToLower(c) == IF \E i \in 1..26 : UpperAlpha[i] = c THEN LowerAlpha[CHOOSE i \in 1..26 : UpperAlpha[i] = c] ELSE c

ToUpper(c) == IF \E i \in 1..26 : LowerAlpha[i] = c THEN UpperAlpha[CHOOSE i \in 1..26 : LowerAlpha[i] = c] ELSE c

Lower(t) == [i \in 1..Len(t) |-> ToLower(t[i])]

Upper(t) == [i \in 1..Len(t) |-> ToUpper(t[i])]

Min(S) == CHOOSE x \in S : \A y \in S : x <= y

\* Python's `pat in t`
Contains(t, pat) == \E i \in 1..(Len(t) - Len(pat) + 1) : SubSeq(t, i, i + Len(pat) - 1) = pat

\* ------------------------------------------------------------------------
\* Text constants of the source
\* ------------------------------------------------------------------------
Buy == <<"B","u","y">>

Sell == <<"S","e","l","l">>

Hold == <<"H","o","l","d">>

HOLD == <<"H","O","L","D">>

EmptyText == <<>>

DisabledStub == <<"R","e","s","e","a","r","c","h"," ","d","e","b","a","t","e"," ","d","i","s","a","b","l","e","d">>

\* Python's None where a number is expected; numbers are exact fractions n/d
NoneNum == [n |-> 0, d |-> 0]

\* ------------------------------------------------------------------------
\* AgentOrchestrator._extract_recommendation (basic path)
\* ------------------------------------------------------------------------
\* variant: 'buy' decides before 'sell' is looked at
BasicExtractRecommendationBuyFirst(analysis) ==
    LET analysis_lower == Lower(analysis) IN
    IF Contains(analysis_lower, <<"b","u","y">>) THEN Buy
    ELSE IF Contains(analysis_lower, <<"s","e","l","l">>) THEN Sell
    ELSE Hold

BasicExtractRecommendation(analysis) ==
    LET analysis_lower == Lower(analysis) IN
    IF Contains(analysis_lower, <<"b","u","y">>) /\ ~Contains(analysis_lower, <<"s","e","l","l">>) THEN Buy
    ELSE IF Contains(analysis_lower, <<"s","e","l","l">>) THEN Sell
    ELSE Hold

\* ------------------------------------------------------------------------
\* Regular expressions (Python re, flag re.IGNORECASE): a pattern is a
\* sequence of elements, matched left to right with backtracking
\* ------------------------------------------------------------------------
\* literal text, written in lower case
Lit(s) == [kind |-> "lit", text |-> s]

\* greedy run of lo..hi characters of a class; hi = 0 is unbounded:
\*   "letter" is [A-Z], "digit" is \d and [0-9], "space" is \s, "sep" is [:\s]
Run(class, lo, hi) == [kind |-> "run", class |-> class, lo |-> lo, hi |-> hi]

\* .*?
Lazy == [kind |-> "lazy"]

\* (?:sub)?
Opt(sub) == [kind |-> "opt", sub |-> sub]

\* (?:a|b|c)
Alt(subs) == [kind |-> "alt", subs |-> subs]

\* the parentheses of group 1
Open == [kind |-> "open"]

Close == [kind |-> "close"]

\* a match is the extent of group 1, [start, end); no match is start = 0
NoMatch == [start |-> 0, end |-> 0]

OrElse(a, b) == IF a # NoMatch THEN a ELSE b

InClass(c, class) ==
    CASE class = "letter" -> \E i \in 1..26 : LowerAlpha[i] = c \/ UpperAlpha[i] = c
      [] class = "digit" -> \E i \in 1..10 : DigitChars[i] = c
      [] class = "space" -> c \in {" ", "\n", "\t"}
      [] class = "sep" -> c \in {":", " ", "\n", "\t"}

\* literal `lit` matches t at position p
MatchCI(t, p, lit) ==
    /\ p + Len(lit) - 1 <= Len(t)
    /\ \A k \in 1..Len(lit) : ToLower(t[p + k - 1]) = lit[k]

\* length of the longest run of the class at p, at most max when max > 0
RECURSIVE RunLength(_, _, _, _)
RunLength(t, p, class, max) ==
    IF p > Len(t) \/ ~InClass(t[p], class) THEN 0
    ELSE IF max = 1 THEN 1
    ELSE 1 + RunLength(t, p + 1, class, IF max = 0 THEN 0 ELSE max - 1)

RECURSIVE MatchFrom(_, _, _, _)
RECURSIVE TryRun(_, _, _, _, _, _)
RECURSIVE TryLazy(_, _, _, _)
RECURSIVE TryAlt(_, _, _, _, _)
\* the pattern matched at position p, group 1 being `cap` so far
MatchFrom(t, pat, p, cap) ==
    IF pat = <<>> THEN cap
    ELSE LET e == Head(pat)
             rest == Tail(pat)
         IN  CASE e.kind = "lit" ->
                    IF MatchCI(t, p, e.text) THEN MatchFrom(t, rest, p + Len(e.text), cap) ELSE NoMatch
               [] e.kind = "run" -> TryRun(t, rest, p, cap, RunLength(t, p, e.class, e.hi), e.lo)
               [] e.kind = "lazy" -> TryLazy(t, rest, p, cap)
               [] e.kind = "opt" -> OrElse(MatchFrom(t, e.sub \o rest, p, cap), MatchFrom(t, rest, p, cap))
               [] e.kind = "alt" -> TryAlt(t, e.subs, rest, p, cap)
               [] e.kind = "open" -> MatchFrom(t, rest, p, [cap EXCEPT !.start = p])
               [] e.kind = "close" -> MatchFrom(t, rest, p, [cap EXCEPT !.end = p])

\* greedy: the longest run first, then shorter ones down to lo
TryRun(t, rest, p, cap, n, lo) ==
    IF n < lo THEN NoMatch
    ELSE OrElse(MatchFrom(t, rest, p + n, cap), TryRun(t, rest, p, cap, n - 1, lo))

\* lazy: the shortest skip first; `.` does not match a newline
TryLazy(t, rest, p, cap) ==
    OrElse(MatchFrom(t, rest, p, cap),
           IF p > Len(t) \/ t[p] = "\n" THEN NoMatch ELSE TryLazy(t, rest, p + 1, cap))

\* alternatives in the order written
TryAlt(t, subs, rest, p, cap) ==
    IF subs = <<>> THEN NoMatch
    ELSE OrElse(MatchFrom(t, Head(subs) \o rest, p, cap), TryAlt(t, Tail(subs), rest, p, cap))

\* re.search: the match at the leftmost position that has one
RECURSIVE SearchFrom(_, _, _)
SearchFrom(t, pat, i) ==
    IF i > Len(t) + 1 THEN NoMatch
    ELSE OrElse(MatchFrom(t, pat, i, NoMatch), SearchFrom(t, pat, i + 1))

Search(t, pat) == SearchFrom(t, pat, 1)

\* `for pattern in patterns`: the match of the first pattern that has one
RECURSIVE FirstSearch(_, _)
FirstSearch(t, patterns) ==
    IF patterns = <<>> THEN NoMatch
    ELSE OrElse(Search(t, Head(patterns)), FirstSearch(t, Tail(patterns)))

\* match.group(1)
Group(t, m) == SubSeq(t, m.start, m.end - 1)

\* ------------------------------------------------------------------------
\* Numbers: float(text) of a text matched by \d+(?:\.\d+)?, as an exact
\* fraction in lowest terms
\* ------------------------------------------------------------------------
RECURSIVE GCD(_, _)
GCD(a, b) == IF b = 0 THEN a ELSE GCD(b, a % b)

Rat(n, d) == IF n = 0 THEN [n |-> 0, d |-> 1] ELSE [n |-> n \div GCD(n, d), d |-> d \div GCD(n, d)]

RECURSIVE IntOf(_)
IntOf(ds) ==
    IF Len(ds) = 0 THEN 0
    ELSE 10 * IntOf(SubSeq(ds, 1, Len(ds) - 1)) + (CHOOSE i \in 1..10 : DigitChars[i] = ds[Len(ds)]) - 1

RECURSIVE Pow10(_)
Pow10(k) == IF k = 0 THEN 1 ELSE 10 * Pow10(k - 1)

Float(s) ==
    LET dot == IF \E i \in 1..Len(s) : s[i] = "." THEN CHOOSE i \in 1..Len(s) : s[i] = "." ELSE 0
    IN  IF dot = 0 THEN Rat(IntOf(s), 1)
        ELSE Rat(IntOf(SubSeq(s, 1, dot - 1)) * Pow10(Len(s) - dot) + IntOf(SubSeq(s, dot + 1, Len(s))),
                 Pow10(Len(s) - dot))

\* ------------------------------------------------------------------------
\* The patterns of the source
\* ------------------------------------------------------------------------
\* (\d+(?:\.\d+)?)
Number == <<Open, Run("digit", 1, 0), Opt(<<Lit(<<".">>), Run("digit", 1, 0)>>), Close>>

\* ([A-Z]+)
Word == <<Open, Run("letter", 1, 0), Close>>

\* \s*%
Percent == <<Run("space", 0, 0), Lit(<<"%">>)>>

\* EnhancedAgentOrchestrator._extract_recommendation
RecommendationPatterns == <<
    <<Lit(<<"r","e","c","o","m","m","e","n","d">>), Opt(<<Lit(<<"a","t","i","o","n">>)>>), Run("sep", 1, 0)>> \o Word,
    <<Lit(<<"d","e","c","i","s","i","o","n">>), Run("sep", 1, 0)>> \o Word,
    <<Lit(<<"a","c","t","i","o","n">>), Run("sep", 1, 0)>> \o Word,
    Word \o <<Run("space", 1, 0), Lit(<<"r","e","c","o","m","m","e","n","d","a","t","i","o","n">>)>>,
    Word \o <<Run("space", 1, 0), Lit(<<"d","e","c","i","s","i","o","n">>)>> >>

\* _extract_position_size of EnhancedAgentOrchestrator and AdvancedRiskManager
PositionSizePatterns == <<
    Number \o Percent \o <<Run("space", 0, 0), Alt(<< <<Lit(<<"p","o","s","i","t","i","o","n">>)>>, <<Lit(<<"a","l","l","o","c","a","t","i","o","n">>)>>, <<Lit(<<"s","i","z","e">>)>> >>)>>,
    <<Lit(<<"p","o","s","i","t","i","o","n">>), Run("space", 0, 0), Lit(<<"s","i","z","e">>), Lazy>> \o Number \o Percent,
    <<Lit(<<"r","e","c","o","m","m","e","n","d">>), Lazy>> \o Number \o Percent,
    Number \o Percent \o <<Run("space", 0, 0), Lit(<<"o","f">>), Run("space", 0, 0), Lit(<<"p","o","r","t","f","o","l","i","o">>)>> >>

\* EnhancedAgentOrchestrator._extract_confidence_score
ConfidencePatterns == <<
    <<Lit(<<"c","o","n","f","i","d","e","n","c","e">>), Lazy>> \o Number \o Percent,
    Number \o Percent \o <<Run("space", 0, 0), Lit(<<"c","o","n","f","i","d","e","n","c","e">>)>>,
    <<Lit(<<"c","o","n","f","i","d","e","n","c","e">>), Lazy>> \o Number \o <<Lit(<<"/","1","0">>)>>,
    Number \o <<Lit(<<"/","1","0">>), Run("space", 0, 0), Lit(<<"c","o","n","f","i","d","e","n","c","e">>)>> >>

\* confidence(?: level)?(?: of)?[:\s]*
BasicConfidencePrefix == <<Lit(<<"c","o","n","f","i","d","e","n","c","e">>), Opt(<<Lit(<<" ","l","e","v","e","l">>)>>), Opt(<<Lit(<<" ","o","f">>)>>), Run("sep", 0, 0)>>

\* AgentOrchestrator._extract_confidence_score: percent_pattern, ten_scale_pattern, fallback_percent
BasicPercentPattern == BasicConfidencePrefix \o <<Open, Run("digit", 1, 3), Close, Lit(<<"%">>)>>

BasicTenScalePattern ==
    BasicConfidencePrefix \o <<Open, Run("digit", 1, 1), Opt(<<Lit(<<".">>), Run("digit", 1, 0)>>), Close, Lit(<<"/","1","0">>)>>

BasicFallbackPercent == <<Open, Run("digit", 1, 3), Close, Lit(<<"%"," ","c","o","n","f","i","d","e","n","c","e">>)>>

\* ------------------------------------------------------------------------
\* Signal extraction of the enhanced orchestrator and the risk manager
\* ------------------------------------------------------------------------
DefaultConfidence == [n |-> 7, d |-> 10]

DefaultPositionSize == [n |-> 5, d |-> 1]

EnhancedExtractRecommendation(analysis) ==
    LET match == FirstSearch(analysis, RecommendationPatterns)
    IN  IF match # NoMatch THEN Upper(Group(analysis, match)) ELSE HOLD

\* val / 100 if val > 10 else val / 10
NormalizeConfidence(val) == IF val.n > 10 * val.d THEN Rat(val.n, val.d * 100) ELSE Rat(val.n, val.d * 10)

EnhancedExtractConfidenceScore(analysis) ==
    LET match == FirstSearch(analysis, ConfidencePatterns)
    IN  IF match # NoMatch THEN NormalizeConfidence(Float(Group(analysis, match))) ELSE DefaultConfidence

EnhancedExtractPositionSize(analysis) ==
    LET match == FirstSearch(analysis, PositionSizePatterns)
    IN  IF match # NoMatch THEN Float(Group(analysis, match)) ELSE DefaultPositionSize

\* AdvancedRiskManager._extract_position_size: None when nothing matches
AdvancedExtractPositionSize(analysis) ==
    LET match == FirstSearch(analysis, PositionSizePatterns)
    IN  IF match # NoMatch THEN Float(Group(analysis, match)) ELSE NoneNum

\* 'recommended': neutral_size or 5.0
RecommendedPositionSize(neutral) ==
    LET neutral_size == AdvancedExtractPositionSize(neutral)
    IN  IF neutral_size = NoneNum \/ neutral_size.n = 0 THEN DefaultPositionSize ELSE neutral_size

\* ------------------------------------------------------------------------
\* Signal extraction of the basic orchestrator
\* ------------------------------------------------------------------------
\* re.findall(r'(\d+(?:\.\d+)?)\s*%', analysis): the first match, or None
BasicExtractPositionSize(analysis) ==
    LET match == Search(analysis, Number \o Percent)
    IN  IF match # NoMatch THEN Float(Group(analysis, match)) ELSE NoneNum

\* min(max(value / scale, 0.0), 1.0)
Clamped(value, scale) == IF value.n > value.d * scale THEN [n |-> 1, d |-> 1] ELSE Rat(value.n, value.d * scale)

BasicExtractConfidenceScore(analysis) ==
    LET percent == Search(analysis, BasicPercentPattern)
        ten_scale == Search(analysis, BasicTenScalePattern)
        fallback == Search(analysis, BasicFallbackPercent)
    IN  IF percent # NoMatch THEN Clamped(Float(Group(analysis, percent)), 100)
        ELSE IF ten_scale # NoMatch THEN Clamped(Float(Group(analysis, ten_scale)), 10)
        ELSE IF fallback # NoMatch THEN Clamped(Float(Group(analysis, fallback)), 100)
        ELSE NoneNum

\* ------------------------------------------------------------------------
\* EnhancedAgentOrchestrator._validate_memo
\* ------------------------------------------------------------------------
MsgMismatch == <<"R","e","c","o","m","m","e","n","d","a","t","i","o","n"," ","m","i","s","m","a","t","c","h"," ","b","e","t","w","e","e","n"," ","c","h","i","e","f"," ","s","t","r","a","t","e","g","i","s","t"," ","a","n","d"," ","t","o","p","-","l","i","n","e",":"," ">>

StaticPrice == [n |-> 100, d |-> 1]

RealPrice == [n |-> 150, d |-> 1]

\* str(price) for the prices of the model
PriceText(price) ==
    IF price = NoneNum THEN <<"N","o","n","e">> ELSE IF price = StaticPrice THEN <<"1","0","0",".","0">> ELSE <<"1","5","0",".","0">>

ValidRecommendations == {Buy, Sell, Hold}

CriticalFields == <<"fundamental_analysis", "technical_analysis", "sentiment_analysis", "chief_strategist_analysis">>

FieldText(f) ==
    CASE f = "fundamental_analysis" -> <<"f","u","n","d","a","m","e","n","t","a","l","_","a","n","a","l","y","s","i","s">>
      [] f = "technical_analysis" -> <<"t","e","c","h","n","i","c","a","l","_","a","n","a","l","y","s","i","s">>
      [] f = "sentiment_analysis" -> <<"s","e","n","t","i","m","e","n","t","_","a","n","a","l","y","s","i","s">>
      [] f = "chief_strategist_analysis" -> <<"c","h","i","e","f","_","s","t","r","a","t","e","g","i","s","t","_","a","n","a","l","y","s","i","s">>

\* variant: the containment test is inverted
RecommendationMismatchInverted(rec, exec_summary) == Len(rec) > 0 /\ Contains(Lower(exec_summary), Lower(rec))

\* rec and rec.lower() not in exec_summary.lower()
RecommendationMismatch(rec, exec_summary) == Len(rec) > 0 /\ ~Contains(Lower(exec_summary), Lower(rec))

\* variant: the static placeholder price 100.0 is accepted
ValidateMemoStaticPriceAccepted(m, technical_data) ==
    LET rec == m["recommendation"]
        missing == {i \in 1..4 : Len(m[CriticalFields[i]]) = 0}
    IN  IF technical_data.error
        THEN [valid |-> FALSE,
              msg |-> <<"T","e","c","h","n","i","c","a","l"," ","d","a","t","a"," ","e","r","r","o","r",":"," ">> \o (IF technical_data.has_error_message
                                            THEN technical_data.error_message ELSE <<"U","n","k","n","o","w","n"," ","e","r","r","o","r">>)]
        ELSE IF technical_data.current_price = NoneNum
        THEN [valid |-> FALSE, msg |-> <<"I","n","v","a","l","i","d"," ","o","r"," ","s","t","a","t","i","c"," ","p","r","i","c","e"," ","d","e","t","e","c","t","e","d",":"," ">> \o PriceText(technical_data.current_price)]
        ELSE IF rec \notin ValidRecommendations
        THEN [valid |-> FALSE, msg |-> <<"I","n","v","a","l","i","d"," ","r","e","c","o","m","m","e","n","d","a","t","i","o","n",":"," ">> \o rec]
        ELSE IF missing # {}
        THEN [valid |-> FALSE, msg |-> <<"M","i","s","s","i","n","g"," ","c","r","i","t","i","c","a","l"," ","f","i","e","l","d",":"," ">> \o FieldText(CriticalFields[Min(missing)])]
        ELSE IF RecommendationMismatch(rec, m["chief_strategist_analysis"])
        THEN [valid |-> FALSE, msg |-> MsgMismatch \o rec \o <<" ","v","s"," ">> \o m["chief_strategist_analysis"]]
        ELSE [valid |-> TRUE, msg |-> EmptyText]

ValidateMemo(m, technical_data) ==
    LET rec == m["recommendation"]
        missing == {i \in 1..4 : Len(m[CriticalFields[i]]) = 0}
    IN  IF technical_data.error
        THEN [valid |-> FALSE,
              msg |-> <<"T","e","c","h","n","i","c","a","l"," ","d","a","t","a"," ","e","r","r","o","r",":"," ">> \o (IF technical_data.has_error_message
                                            THEN technical_data.error_message ELSE <<"U","n","k","n","o","w","n"," ","e","r","r","o","r">>)]
        ELSE IF technical_data.current_price = NoneNum \/ technical_data.current_price = StaticPrice
        THEN [valid |-> FALSE, msg |-> <<"I","n","v","a","l","i","d"," ","o","r"," ","s","t","a","t","i","c"," ","p","r","i","c","e"," ","d","e","t","e","c","t","e","d",":"," ">> \o PriceText(technical_data.current_price)]
        ELSE IF rec \notin ValidRecommendations
        THEN [valid |-> FALSE, msg |-> <<"I","n","v","a","l","i","d"," ","r","e","c","o","m","m","e","n","d","a","t","i","o","n",":"," ">> \o rec]
        ELSE IF missing # {}
        THEN [valid |-> FALSE, msg |-> <<"M","i","s","s","i","n","g"," ","c","r","i","t","i","c","a","l"," ","f","i","e","l","d",":"," ">> \o FieldText(CriticalFields[Min(missing)])]
        ELSE IF RecommendationMismatch(rec, m["chief_strategist_analysis"])
        THEN [valid |-> FALSE, msg |-> MsgMismatch \o rec \o <<" ","v","s"," ">> \o m["chief_strategist_analysis"]]
        ELSE [valid |-> TRUE, msg |-> EmptyText]

\* ------------------------------------------------------------------------
\* Persona Service: BaseAgent._call_llm and the texts the service may return
\* ------------------------------------------------------------------------
PersonaText(name) ==
    CASE name = "FundamentalAnalyst" -> <<"F","u","n","d","a","m","e","n","t","a","l","A","n","a","l","y","s","t">>
      [] name = "TechnicalAnalyst" -> <<"T","e","c","h","n","i","c","a","l","A","n","a","l","y","s","t">>
      [] name = "SentimentAnalyst" -> <<"S","e","n","t","i","m","e","n","t","A","n","a","l","y","s","t">>
      [] name = "ChiefStrategist" -> <<"C","h","i","e","f","S","t","r","a","t","e","g","i","s","t">>
      [] name = "RiskManager" -> <<"R","i","s","k","M","a","n","a","g","e","r">>
      [] name = "BaseAgent" -> <<"B","a","s","e","A","g","e","n","t">>
      [] name = "BullResearcher" -> <<"B","u","l","l","R","e","s","e","a","r","c","h","e","r">>
      [] name = "BearResearcher" -> <<"B","e","a","r","R","e","s","e","a","r","c","h","e","r">>
      [] name = "ConservativeRiskAnalyst" -> <<"C","o","n","s","e","r","v","a","t","i","v","e","R","i","s","k","A","n","a","l","y","s","t">>
      [] name = "AggressiveRiskAnalyst" -> <<"A","g","g","r","e","s","s","i","v","e","R","i","s","k","A","n","a","l","y","s","t">>
      [] name = "NeutralRiskAnalyst" -> <<"N","e","u","t","r","a","l","R","i","s","k","A","n","a","l","y","s","t">>
      [] name = "MemoryAgent" -> <<"M","e","m","o","r","y","A","g","e","n","t">>

\* a response of self.llm.invoke: content returned, or an exception raised
Replies(texts) == [ok : {TRUE}, content : texts] \cup {[ok |-> FALSE, content |-> EmptyText]}

\* try: return response.content / except: return f"Error in {self.name}: {str(e)}"
CallLLM(name, reply) ==
    IF reply.ok THEN reply.content ELSE <<"E","r","r","o","r"," ","i","n"," ">> \o PersonaText(name) \o <<":"," ","t","i","m","e","o","u","t">>

AnalystTexts == {<<"S","o","l","i","d"," ","m","a","r","g","i","n","s">>, EmptyText}

ChiefTexts == {
    <<"T","h","e","s","i","s"," ","h","o","l","d","s",".","\n","R","e","c","o","m","m","e","n","d","a","t","i","o","n",":"," ","B","u","y","\n","C","o","n","f","i","d","e","n","c","e",":"," ","8","0","%">>,
    <<"W","e"," ","r","e","c","o","m","m","e","n","d"," ","a"," ","b","u","y"," ","s","e","l","l"," ","h","e","d","g","e">>,
    <<"S","t","r","o","n","g"," ","b","u","y"," ","s","i","g","n","a","l",","," ","9","/","1","0"," ","c","o","n","f","i","d","e","n","c","e">>,
    <<"M","a","i","n","t","a","i","n"," ","c","u","r","r","e","n","t"," ","p","o","s","i","t","i","o","n">>,
    <<"D","e","c","i","s","i","o","n",":"," ","h","o","l","d","."," ","C","o","n","f","i","d","e","n","c","e",":"," ","5","%">>,
    <<"S","E","L","L"," ","r","e","c","o","m","m","e","n","d","a","t","i","o","n">>,
    EmptyText }

RiskTexts == {
    <<"P","o","s","i","t","i","o","n"," ","s","i","z","e",":"," ","3","%"," ","o","f"," ","p","o","r","t","f","o","l","i","o">>,
    <<"K","e","e","p"," ","e","x","p","o","s","u","r","e"," ","l","o","w">>,
    <<"C","u","t"," ","5","0","%",";"," ","r","e","c","o","m","m","e","n","d"," ","2",".","5","%"," ","a","l","l","o","c","a","t","i","o","n">> }


\* every text a chief-strategist or risk-manager invocation can yield, and the
\* values the enhanced extraction functions give on it
ChiefOutputs == {CallLLM("ChiefStrategist", r) : r \in Replies(ChiefTexts)}

RiskOutputs == {CallLLM("RiskManager", r) : r \in Replies(RiskTexts)}

\* the signals the enhanced orchestrator extracts from each text the service may return
EnhancedExtracted ==
    [recommendation |-> [t \in ChiefOutputs |-> EnhancedExtractRecommendation(t)],
     confidence_score |-> [t \in ChiefOutputs |-> EnhancedExtractConfidenceScore(t)],
     position_size |-> [t \in RiskOutputs |-> EnhancedExtractPositionSize(t)]]

\* the signals the basic orchestrator extracts from each text the service may return
BasicExtracted ==
    [recommendation |-> [t \in ChiefOutputs |-> BasicExtractRecommendation(t)],
     confidence_score |-> [t \in ChiefOutputs |-> BasicExtractConfidenceScore(t)],
     position_size |-> [t \in RiskOutputs |-> BasicExtractPositionSize(t)]]

\* ------------------------------------------------------------------------
\* State
\* ------------------------------------------------------------------------
VARIABLES
    cfg,                \* EnhancedAgentOrchestrator.enable_memory / enable_research_debate / enable_risk_debate
    inp,                \* arguments of the call: technical_data, and whether sentiment_data formats
    pc,                 \* position of the call in generate_enhanced_memo / generate_memo
    state,              \* the workflow state bundle (keys added stage by stage); locals of the fallback
    log,                \* stages completed, persona invocations and memory accesses, in order
    generation_errors,  \* persona calls of this request in which the service raised (counted up to a cap)
    store,              \* rows of the memory table
    memo,               \* the returned memo (a mapping), empty until the call returns
    fcall               \* application of a pure function: its arguments and its result

vars == <<cfg, inp, pc, state, log, generation_errors, store, memo, fcall>>

\* debate_rounds=2 passed by research_debate_node and advanced_risk_management_node
DebateRounds == 2

\* generation_errors stops counting here
MaxCountedErrors == 2

EmptyMap == [k \in {} |-> 0]

Put(s, k, v) == [x \in (DOMAIN s) \cup {k} |-> IF x = k THEN v ELSE s[x]]

NoCall == [fn |-> "none"]

TechnicalInputs == {
    [error |-> FALSE, has_error_message |-> FALSE, error_message |-> EmptyText, current_price |-> RealPrice],
    [error |-> FALSE, has_error_message |-> FALSE, error_message |-> EmptyText, current_price |-> StaticPrice],
    [error |-> FALSE, has_error_message |-> FALSE, error_message |-> EmptyText, current_price |-> NoneNum],
    [error |-> TRUE, has_error_message |-> TRUE, error_message |-> <<"N","o"," ","c","a","n","d","l","e"," ","d","a","t","a">>, current_price |-> NoneNum],
    [error |-> TRUE, has_error_message |-> FALSE, error_message |-> EmptyText, current_price |-> StaticPrice] }

Configs == [memory : BOOLEAN, research : BOOLEAN, risk : BOOLEAN]

Inputs == [technical_data : TechnicalInputs, sentiment_ok : BOOLEAN]

Count(n) == IF generation_errors + n > MaxCountedErrors THEN MaxCountedErrors ELSE generation_errors + n

Failed(reply) == IF reply.ok THEN 0 ELSE 1

Logged(path, entries) == log \o [i \in 1..Len(entries) |-> <<path>> \o entries[i]]

\* ------------------------------------------------------------------------
\* EnhancedAgentOrchestrator.generate_enhanced_memo: the advanced workflow
\* ------------------------------------------------------------------------
Init ==
    /\ cfg \in Configs
    /\ inp \in Inputs
    /\ pc = "fundamental_analysis"
    /\ state = EmptyMap
    /\ log = <<>>
    /\ generation_errors = 0
    /\ store = <<>>
    /\ memo = EmptyMap
    /\ fcall = NoCall

\* variant: the handler starts the advanced workflow again
RaiseInNodeRetry(node, entries, failures) ==
    /\ pc' = "fundamental_analysis"
    /\ state' = EmptyMap
    /\ log' = Logged("advanced", entries \o << <<"raise", node>> >>)
    /\ generation_errors' = Count(failures)
    /\ UNCHANGED <<cfg, inp, store, memo, fcall>>

\* a node raises: except Exception: ... return self._generate_basic_memo(...)
RaiseInNode(node, entries, failures) ==
    /\ pc' = "fb_fundamental"
    /\ state' = EmptyMap
    /\ log' = Logged("advanced", entries \o << <<"raise", node>> >>)
    /\ generation_errors' = Count(failures)
    /\ UNCHANGED <<cfg, inp, store, memo, fcall>>

FundamentalAnalysisNode ==
    /\ pc = "fundamental_analysis"
    /\ \E reply \in Replies(AnalystTexts) :
        /\ state' = Put(state, "fundamental_analysis", CallLLM("FundamentalAnalyst", reply))
        /\ generation_errors' = Count(Failed(reply))
    /\ log' = Logged("advanced", << <<"call", "FundamentalAnalyst">>, <<"stage", "fundamental">> >>)
    /\ pc' = "technical_analysis"
    /\ UNCHANGED <<cfg, inp, store, memo, fcall>>

TechnicalAnalysisNode ==
    /\ pc = "technical_analysis"
    /\ \E reply \in Replies(AnalystTexts) :
        /\ state' = Put(state, "technical_analysis", CallLLM("TechnicalAnalyst", reply))
        /\ generation_errors' = Count(Failed(reply))
    /\ log' = Logged("advanced", << <<"call", "TechnicalAnalyst">>, <<"stage", "technical">> >>)
    /\ pc' = "sentiment_analysis"
    /\ UNCHANGED <<cfg, inp, store, memo, fcall>>

\* SentimentAnalyst._format_data_for_analysis raises on a sentiment_score that
\* does not accept the format ":.2f", before the service is called
SentimentFormatRaises == ~inp.sentiment_ok

SentimentAnalysisNode ==
    /\ pc = "sentiment_analysis"
    /\ IF SentimentFormatRaises
       THEN RaiseInNode("sentiment_analysis", <<>>, 0)
       ELSE /\ \E reply \in Replies(AnalystTexts) :
                /\ state' = Put(state, "sentiment_analysis", CallLLM("SentimentAnalyst", reply))
                /\ generation_errors' = Count(Failed(reply))
            /\ log' = Logged("advanced", << <<"call", "SentimentAnalyst">>, <<"stage", "sentiment">> >>)
            /\ pc' = "research_debate"
            /\ UNCHANGED <<cfg, inp, store, memo, fcall>>

\* if self.memory_system: memory_insights = self.memory_system.get_memory_insights(current_memo)
MemoryRead == IF cfg.memory THEN << <<"mem", "read">> >> ELSE <<>>

\* ResearchTeam._generate_synthesis and AdvancedRiskManager._generate_synthesis
\* instantiate the abstract class BaseAgent, which raises TypeError
GenerateSynthesisRaises == TRUE

\* the persona invocations of conduct_research_debate, in order
RECURSIVE ResearchDebateCalls(_)
ResearchDebateCalls(rounds) ==
    IF rounds = 0 THEN <<>>
    ELSE ResearchDebateCalls(rounds - 1) \o << <<"call", "BullResearcher">>, <<"call", "BearResearcher">> >>

\* the persona invocations of conduct_risk_debate, in order
RECURSIVE RiskDebateCalls(_)
RiskDebateCalls(rounds) ==
    IF rounds = 0 THEN <<>>
    ELSE RiskDebateCalls(rounds - 1) \o << <<"call", "ConservativeRiskAnalyst">>,
                                           <<"call", "AggressiveRiskAnalyst">>,
                                           <<"call", "NeutralRiskAnalyst">> >>

DisabledResearchDebate ==
    [bull_analysis |-> DisabledStub, bear_analysis |-> DisabledStub, debate_synthesis |-> DisabledStub]

DebateTexts == {<<"G","r","o","w","t","h"," ","c","a","s","e">>, <<"R","i","s","k"," ","c","a","s","e">>}

ResearchDebateNode ==
    /\ pc = "research_debate"
    /\ IF ~cfg.research
       THEN /\ state' = Put(state, "research_debate", DisabledResearchDebate)
            /\ log' = Logged("advanced", << <<"stage", "research_stub">> >>)
            /\ pc' = "chief_strategist"
            /\ UNCHANGED <<cfg, inp, generation_errors, store, memo, fcall>>
       ELSE \E failures \in 0..(2 * DebateRounds) :
              IF GenerateSynthesisRaises
              THEN RaiseInNode("research_debate", MemoryRead \o ResearchDebateCalls(DebateRounds), failures)
              ELSE \E bull \in DebateTexts, bear \in DebateTexts, reply \in Replies(DebateTexts) :
                     /\ state' = Put(state, "research_debate",
                                     [bull_analysis |-> bull, bear_analysis |-> bear,
                                      debate_synthesis |-> CallLLM("BaseAgent", reply)])
                     /\ log' = Logged("advanced", MemoryRead \o ResearchDebateCalls(DebateRounds)
                                        \o << <<"call", "BaseAgent">>, <<"stage", "research_debate">> >>)
                     /\ generation_errors' = Count(failures + Failed(reply))
                     /\ pc' = "chief_strategist"
                     /\ UNCHANGED <<cfg, inp, store, memo, fcall>>

ChiefStrategistNode ==
    /\ pc = "chief_strategist"
    /\ \E reply \in Replies(ChiefTexts) :
        LET analysis == CallLLM("ChiefStrategist", reply) IN
        /\ state' = Put(Put(Put(state, "chief_strategist_analysis", analysis),
                            "recommendation", EnhancedExtracted.recommendation[analysis]),
                        "confidence_score", EnhancedExtracted.confidence_score[analysis])
        /\ generation_errors' = Count(Failed(reply))
    /\ log' = Logged("advanced", MemoryRead \o << <<"call", "ChiefStrategist">>, <<"stage", "chief">> >>)
    /\ pc' = "advanced_risk_management"
    /\ UNCHANGED <<cfg, inp, store, memo, fcall>>

AdvancedRiskManagementNode ==
    /\ pc = "advanced_risk_management"
    /\ IF ~cfg.risk
       THEN /\ \E reply \in Replies(RiskTexts) :
                LET analysis == CallLLM("RiskManager", reply) IN
                /\ state' = Put(Put(state, "risk_assessment", analysis),
                                "position_size", EnhancedExtracted.position_size[analysis])
                /\ generation_errors' = Count(Failed(reply))
            /\ log' = Logged("advanced", << <<"call", "RiskManager">>, <<"stage", "basic_risk">> >>)
            /\ pc' = "memory_storage"
            /\ UNCHANGED <<cfg, inp, store, memo, fcall>>
       ELSE \E failures \in 0..(3 * DebateRounds) :
              IF GenerateSynthesisRaises
              THEN RaiseInNode("advanced_risk_management", MemoryRead \o RiskDebateCalls(DebateRounds), failures)
              ELSE \E neutral \in RiskTexts, reply \in Replies(RiskTexts) :
                     /\ state' = Put(Put(state, "risk_assessment", CallLLM("BaseAgent", reply)),
                                     "position_size", RecommendedPositionSize(neutral))
                     /\ log' = Logged("advanced", MemoryRead \o RiskDebateCalls(DebateRounds)
                                        \o << <<"call", "BaseAgent">>, <<"stage", "risk_debate">> >>)
                     /\ generation_errors' = Count(failures + Failed(reply))
                     /\ pc' = "memory_storage"
                     /\ UNCHANGED <<cfg, inp, store, memo, fcall>>

\* the row written by MemorySystem.store_memo for the memo_data of memory_storage_node
MemoryRow(s) ==
    [memo_id |-> "T_now", ticker |-> "T",
     investment_thesis |-> s["chief_strategist_analysis"],
     risk_assessment |-> s["risk_assessment"],
     decision |-> s["recommendation"],
     outcome |-> "NULL"]

MemoryStorageNode ==
    /\ pc = "memory_storage"
    /\ IF ~cfg.memory
       THEN UNCHANGED <<state, log, store>>
       ELSE \E success \in BOOLEAN :
              /\ store' = IF success
                          THEN SelectSeq(store, LAMBDA r : r.memo_id # MemoryRow(state).memo_id)
                               \o <<MemoryRow(state)>>
                          ELSE store
              /\ state' = IF success
                          THEN Put(Put(state, "memory_stored", TRUE), "memo_id", MemoryRow(state).memo_id)
                          ELSE Put(state, "memory_stored", FALSE)
              /\ log' = Logged("advanced", << <<"mem", "write">>, <<"stage", "memory_write">> >>)
    /\ pc' = "seal"
    /\ UNCHANGED <<cfg, inp, generation_errors, memo, fcall>>

\* the memo prepared from final_state
PreparedMemo(s) ==
    [k \in {"fundamental_analysis", "technical_analysis", "sentiment_analysis", "chief_strategist_analysis",
            "recommendation", "confidence_score", "position_size", "risk_assessment", "research_debate"}
        |-> s[k]]
    @@ ("memory_stored" :> (IF "memory_stored" \in DOMAIN s THEN s["memory_stored"] ELSE FALSE))
    @@ ("workflow_version" :> "enhanced_v2")

\* is_valid, error_msg = self._validate_memo(memo, technical_data); memo['status'] = ...
Sealed(m, technical_data) ==
    LET v == ValidateMemo(m, technical_data) IN
    IF ~v.valid THEN Put(Put(m, "status", "error"), "error_message", v.msg)
    ELSE Put(m, "status", "complete")

ValidateAndSeal ==
    /\ pc = "seal"
    /\ memo' = Sealed(PreparedMemo(state), inp.technical_data)
    /\ log' = Logged("advanced", << <<"stage", "validate">>, <<"stage", "seal">> >>)
    /\ pc' = "done"
    /\ UNCHANGED <<cfg, inp, state, generation_errors, store, fcall>>

\* ------------------------------------------------------------------------
\* EnhancedAgentOrchestrator._generate_basic_memo: the simplified fallback
\* ------------------------------------------------------------------------
FallbackFundamental ==
    /\ pc = "fb_fundamental"
    /\ \E reply \in Replies(AnalystTexts) :
        /\ state' = Put(state, "fundamental_analysis", CallLLM("FundamentalAnalyst", reply))
        /\ generation_errors' = Count(Failed(reply))
    /\ log' = Logged("fallback", << <<"call", "FundamentalAnalyst">> >>)
    /\ pc' = "fb_technical"
    /\ UNCHANGED <<cfg, inp, store, memo, fcall>>

FallbackTechnical ==
    /\ pc = "fb_technical"
    /\ \E reply \in Replies(AnalystTexts) :
        /\ state' = Put(state, "technical_analysis", CallLLM("TechnicalAnalyst", reply))
        /\ generation_errors' = Count(Failed(reply))
    /\ log' = Logged("fallback", << <<"call", "TechnicalAnalyst">> >>)
    /\ pc' = "fb_sentiment"
    /\ UNCHANGED <<cfg, inp, store, memo, fcall>>

\* an exception of the fallback leaves generate_enhanced_memo
FallbackSentiment ==
    /\ pc = "fb_sentiment"
    /\ IF SentimentFormatRaises
       THEN /\ pc' = "raised"
            /\ state' = EmptyMap
            /\ log' = Logged("fallback", << <<"raise", "sentiment_analysis">> >>)
            /\ UNCHANGED generation_errors
       ELSE /\ \E reply \in Replies(AnalystTexts) :
                /\ state' = Put(state, "sentiment_analysis", CallLLM("SentimentAnalyst", reply))
                /\ generation_errors' = Count(Failed(reply))
            /\ log' = Logged("fallback", << <<"call", "SentimentAnalyst">> >>)
            /\ pc' = "fb_chief"
    /\ UNCHANGED <<cfg, inp, store, memo, fcall>>

FallbackChief ==
    /\ pc = "fb_chief"
    /\ \E reply \in Replies(ChiefTexts) :
        /\ state' = Put(state, "chief_strategist_analysis", CallLLM("ChiefStrategist", reply))
        /\ generation_errors' = Count(Failed(reply))
    /\ log' = Logged("fallback", << <<"call", "ChiefStrategist">> >>)
    /\ pc' = "fb_risk"
    /\ UNCHANGED <<cfg, inp, store, memo, fcall>>

\* the dictionary returned by _generate_basic_memo
BasicFallbackMemo(s, risk_assessment) ==
    [k \in {"fundamental_analysis", "technical_analysis", "sentiment_analysis", "chief_strategist_analysis"}
        |-> s[k]]
    @@ ("recommendation" :> EnhancedExtracted.recommendation[s["chief_strategist_analysis"]])
    @@ ("confidence_score" :> EnhancedExtracted.confidence_score[s["chief_strategist_analysis"]])
    @@ ("position_size" :> EnhancedExtracted.position_size[risk_assessment])
    @@ ("risk_assessment" :> risk_assessment)
    @@ ("workflow_version" :> "basic_fallback")

FallbackRiskAndReturn ==
    /\ pc = "fb_risk"
    /\ \E reply \in Replies(RiskTexts) :
        /\ memo' = BasicFallbackMemo(state, CallLLM("RiskManager", reply))
        /\ generation_errors' = Count(Failed(reply))
    /\ log' = Logged("fallback", << <<"call", "RiskManager">>, <<"stage", "return">> >>)
    /\ pc' = "done"
    /\ UNCHANGED <<cfg, inp, state, store, fcall>>

Next ==
    \/ FundamentalAnalysisNode
    \/ TechnicalAnalysisNode
    \/ SentimentAnalysisNode
    \/ ResearchDebateNode
    \/ ChiefStrategistNode
    \/ AdvancedRiskManagementNode
    \/ MemoryStorageNode
    \/ ValidateAndSeal
    \/ FallbackFundamental
    \/ FallbackTechnical
    \/ FallbackSentiment
    \/ FallbackChief
    \/ FallbackRiskAndReturn

Spec == Init /\ [][Next]_vars

\* the state dictionary generate_memo starts the workflow with
BasicInitialState ==
    [k \in {"fundamental_analysis", "technical_analysis", "sentiment_analysis",
            "chief_strategist_analysis", "risk_assessment", "recommendation"} |-> EmptyText]
    @@ [k \in {"position_size", "confidence_score"} |-> NoneNum]

InitBasic ==
    /\ cfg = [memory |-> FALSE, research |-> FALSE, risk |-> FALSE]
    /\ inp \in Inputs
    /\ pc = "b_fundamental_analysis"
    /\ state = BasicInitialState
    /\ log = <<>>
    /\ generation_errors = 0
    /\ store = <<>>
    /\ memo = EmptyMap
    /\ fcall = NoCall

BasicFundamentalNode ==
    /\ pc = "b_fundamental_analysis"
    /\ \E reply \in Replies(AnalystTexts) :
        /\ state' = Put(state, "fundamental_analysis", CallLLM("FundamentalAnalyst", reply))
        /\ generation_errors' = Count(Failed(reply))
    /\ log' = Logged("basic", << <<"call", "FundamentalAnalyst">>, <<"stage", "fundamental">> >>)
    /\ pc' = "b_technical_analysis"
    /\ UNCHANGED <<cfg, inp, store, memo, fcall>>

BasicTechnicalNode ==
    /\ pc = "b_technical_analysis"
    /\ \E reply \in Replies(AnalystTexts) :
        /\ state' = Put(state, "technical_analysis", CallLLM("TechnicalAnalyst", reply))
        /\ generation_errors' = Count(Failed(reply))
    /\ log' = Logged("basic", << <<"call", "TechnicalAnalyst">>, <<"stage", "technical">> >>)
    /\ pc' = "b_sentiment_analysis"
    /\ UNCHANGED <<cfg, inp, store, memo, fcall>>

\* variant: the except branch reports the memo as complete
BasicErrorMemoComplete ==
    [k \in {"financial_analysis", "technical_analysis", "sentiment_analysis",
            "investment_thesis", "risks_and_mitigation"} |-> <<"A","n","a","l","y","s","i","s"," ","r","e","q","u","i","r","e","s"," ","a","d","d","i","t","i","o","n","a","l"," ","r","e","s","e","a","r","c","h">>]
    @@ ("recommendation" :> Hold)
    @@ [k \in {"position_size", "confidence_score"} |-> NoneNum]
    @@ ("status" :> "complete")

\* the dictionary generate_memo returns from its except branch
BasicErrorMemo ==
    [k \in {"financial_analysis", "technical_analysis", "sentiment_analysis",
            "investment_thesis", "risks_and_mitigation"} |-> <<"A","n","a","l","y","s","i","s"," ","r","e","q","u","i","r","e","s"," ","a","d","d","i","t","i","o","n","a","l"," ","r","e","s","e","a","r","c","h">>]
    @@ ("recommendation" :> Hold)
    @@ [k \in {"position_size", "confidence_score"} |-> NoneNum]
    @@ ("status" :> "error")

BasicSentimentNode ==
    /\ pc = "b_sentiment_analysis"
    /\ IF SentimentFormatRaises
       THEN /\ memo' = BasicErrorMemo
            /\ log' = Logged("basic", << <<"raise", "sentiment_analysis">>, <<"stage", "return">> >>)
            /\ pc' = "done"
            /\ UNCHANGED <<state, generation_errors>>
       ELSE /\ \E reply \in Replies(AnalystTexts) :
                /\ state' = Put(state, "sentiment_analysis", CallLLM("SentimentAnalyst", reply))
                /\ generation_errors' = Count(Failed(reply))
            /\ log' = Logged("basic", << <<"call", "SentimentAnalyst">>, <<"stage", "sentiment">> >>)
            /\ pc' = "b_chief_strategist"
            /\ UNCHANGED memo
    /\ UNCHANGED <<cfg, inp, store, fcall>>

\* if recommendation not in valid_recommendations: recommendation = "Hold"
BasicCheckedRecommendation(recommendation) ==
    IF recommendation \notin ValidRecommendations THEN Hold ELSE recommendation

BasicChiefNode ==
    /\ pc = "b_chief_strategist"
    /\ \E reply \in Replies(ChiefTexts) :
        LET analysis == CallLLM("ChiefStrategist", reply) IN
        /\ state' = Put(Put(Put(state, "chief_strategist_analysis", analysis),
                            "recommendation", BasicCheckedRecommendation(BasicExtracted.recommendation[analysis])),
                        "confidence_score", BasicExtracted.confidence_score[analysis])
        /\ generation_errors' = Count(Failed(reply))
    /\ log' = Logged("basic", << <<"call", "ChiefStrategist">>, <<"stage", "chief">> >>)
    /\ pc' = "b_risk_manager"
    /\ UNCHANGED <<cfg, inp, store, memo, fcall>>

BasicRiskNode ==
    /\ pc = "b_risk_manager"
    /\ \E reply \in Replies(RiskTexts) :
        LET analysis == CallLLM("RiskManager", reply) IN
        /\ state' = Put(Put(state, "risk_assessment", analysis),
                        "position_size", BasicExtracted.position_size[analysis])
        /\ generation_errors' = Count(Failed(reply))
    /\ log' = Logged("basic", << <<"call", "RiskManager">>, <<"stage", "risk">> >>)
    /\ pc' = "b_return"
    /\ UNCHANGED <<cfg, inp, store, memo, fcall>>

\* the result dictionary generate_memo builds from final_state
BasicResult(s) ==
    ("financial_analysis" :> s["fundamental_analysis"])
    @@ ("technical_analysis" :> s["technical_analysis"])
    @@ ("sentiment_analysis" :> s["sentiment_analysis"])
    @@ ("investment_thesis" :> s["chief_strategist_analysis"])
    @@ ("risks_and_mitigation" :> s["risk_assessment"])
    @@ ("recommendation" :> s["recommendation"])
    @@ ("position_size" :> s["position_size"])
    @@ ("confidence_score" :> s["confidence_score"])
    @@ ("status" :> "complete")

BasicReturn ==
    /\ pc = "b_return"
    /\ memo' = BasicResult(state)
    /\ log' = Logged("basic", << <<"stage", "return">> >>)
    /\ pc' = "done"
    /\ UNCHANGED <<cfg, inp, state, generation_errors, store, fcall>>

NextBasic ==
    \/ BasicFundamentalNode
    \/ BasicTechnicalNode
    \/ BasicSentimentNode
    \/ BasicChiefNode
    \/ BasicRiskNode
    \/ BasicReturn

SpecBasic == InitBasic /\ [][NextBasic]_vars

\* ------------------------------------------------------------------------
\* _validate_memo and the sealing step applied to arbitrary memos
\* ------------------------------------------------------------------------
CandidateMemos ==
    {  ("recommendation" :> r) @@ ("chief_strategist_analysis" :> c) @@ ("fundamental_analysis" :> f)
       @@ ("technical_analysis" :> t) @@ ("sentiment_analysis" :> <<"N","e","w","s"," ","f","l","o","w"," ","p","o","s","i","t","i","v","e">>)
       : r \in {Buy, Sell, Hold, Upper(Buy), EmptyText}, c \in ChiefOutputs,
         f \in {CallLLM("FundamentalAnalyst", reply) : reply \in Replies(AnalystTexts)}, t \in AnalystTexts }

InitValidate ==
    /\ cfg = [memory |-> FALSE, research |-> FALSE, risk |-> FALSE]
    /\ inp \in [technical_data : TechnicalInputs, sentiment_ok : {TRUE}]
    /\ pc = "call"
    /\ state = EmptyMap
    /\ log = <<>>
    /\ generation_errors = 0
    /\ store = <<>>
    /\ memo \in CandidateMemos
    /\ fcall = NoCall

ApplyValidate ==
    /\ pc = "call"
    /\ fcall' = [fn |-> "seal", result |-> Sealed(memo, inp.technical_data)]
    /\ pc' = "returned"
    /\ UNCHANGED <<cfg, inp, state, log, generation_errors, store, memo>>

SpecValidate == InitValidate /\ [][ApplyValidate]_vars

\* ------------------------------------------------------------------------
\* The recommendation extraction functions applied to arbitrary texts
\* ------------------------------------------------------------------------
\* texts are built from at most MaxFragments fragments
MaxFragments == 3

Fragments == {<<"b","u","y">>, <<"S","e","l","l">>, <<"B","U","Y">>, <<"s","e","l","l">>, <<"H","o","l","d">>, <<"b","u">>, <<"y">>, <<"s","e">>, <<"l","l">>, <<" ">>, <<"r","e","c","o","m","m","e","n","d",":"," ">>}

RECURSIVE Concat(_)
Concat(fs) == IF Len(fs) = 0 THEN EmptyText ELSE fs[1] \o Concat(Tail(fs))

FragmentTexts == {Concat(fs) : fs \in UNION {[1..n -> Fragments] : n \in 0..MaxFragments}}

InitExtract ==
    /\ cfg = [memory |-> FALSE, research |-> FALSE, risk |-> FALSE]
    /\ inp = [sentiment_ok |-> TRUE]
    /\ pc = "call"
    /\ state = EmptyMap
    /\ log = <<>>
    /\ generation_errors = 0
    /\ store = <<>>
    /\ memo = EmptyMap
    /\ fcall \in [fn : {"arg"}, text : FragmentTexts]

ApplyBasicExtractRecommendation ==
    /\ pc = "call"
    /\ fcall' = [fn |-> "basic_recommendation", text |-> fcall.text,
                 result |-> BasicExtractRecommendation(fcall.text)]
    /\ pc' = "returned"
    /\ UNCHANGED <<cfg, inp, state, log, generation_errors, store, memo>>

ApplyEnhancedExtractRecommendation ==
    /\ pc = "call"
    /\ fcall' = [fn |-> "enhanced_recommendation", text |-> fcall.text,
                 result |-> EnhancedExtractRecommendation(fcall.text)]
    /\ pc' = "returned"
    /\ UNCHANGED <<cfg, inp, state, log, generation_errors, store, memo>>

NextExtract == ApplyBasicExtractRecommendation \/ ApplyEnhancedExtractRecommendation

SpecExtract == InitExtract /\ [][NextExtract]_vars

\* ------------------------------------------------------------------------
\* Properties
\* ------------------------------------------------------------------------
IsPrefix(a, b) == Len(a) <= Len(b) /\ SubSeq(b, 1, Len(a)) = a

\* names of the log entries of one path and kind, in order
Entries(path, kind) ==
    LET sel == SelectSeq(log, LAMBDA e : e[1] = path /\ e[2] = kind)
    IN  [i \in 1..Len(sel) |-> sel[i][3]]

HasEntry(path, kind) == \E i \in 1..Len(log) : log[i][1] = path /\ log[i][2] = kind

\* the word occurs in the text at some position, compared letter by letter without case
HasWord(t, w) == \E i \in 1..Len(t) : MatchCI(t, i, Lower(w))

IsSealed(m) ==
    /\ "status" \in DOMAIN m
    /\ m["status"] \in {"complete", "error"}

ChiefTextOf(m) ==
    IF "investment_thesis" \in DOMAIN m THEN m["investment_thesis"] ELSE m["chief_strategist_analysis"]

FundamentalTextOf(m) ==
    IF "financial_analysis" \in DOMAIN m THEN m["financial_analysis"] ELSE m["fundamental_analysis"]

Returned == pc = "done"

ExpectedStages ==
    <<"fundamental", "technical", "sentiment",
      IF cfg.research THEN "research_debate" ELSE "research_stub",
      "chief",
      IF cfg.risk THEN "risk_debate" ELSE "basic_risk">>
    \o (IF cfg.memory THEN <<"memory_write">> ELSE <<>>)
    \o <<"validate", "seal">>

\* C1: for well-formed inputs the advanced path runs its stages in the order
\* fundamental, technical, sentiment, research debate (or stub), chief synthesis,
\* risk debate (or basic risk), memory write (if enabled), validate, seal;
\* no stage is reordered or repeated, and when the call returns none was skipped.
C1_StagesInOrder ==
    inp.sentiment_ok =>
        /\ IsPrefix(Entries("advanced", "stage"), ExpectedStages)
        /\ Returned => Entries("advanced", "stage") = ExpectedStages

BuyNarrative(t) == Contains(t, <<"R","e","c","o","m","m","e","n","d","a","t","i","o","n",":"," ","B","u","y">>) /\ Contains(t, <<"C","o","n","f","i","d","e","n","c","e",":"," ","8","0","%">>)

FourTextsPresent(m) ==
    /\ Len(FundamentalTextOf(m)) > 0
    /\ Len(m["technical_analysis"]) > 0
    /\ Len(m["sentiment_analysis"]) > 0
    /\ Len(ChiefTextOf(m)) > 0

\* C2: with error-free snapshots, a real price, no persona failure, non-empty stage
\* texts and a chief
\* narrative containing 'Recommendation: Buy' and 'Confidence: 80%', the returned
\* memo has recommendation Buy, confidence 0.8 and status complete.
C2_EndToEnd ==
    ( /\ Returned
      /\ ~inp.technical_data.error
      /\ inp.technical_data.current_price = RealPrice
      /\ inp.sentiment_ok
      /\ generation_errors = 0
      /\ FourTextsPresent(memo)
      /\ BuyNarrative(ChiefTextOf(memo)) )
    => /\ memo["recommendation"] = Buy
       /\ memo["confidence_score"] = [n |-> 4, d |-> 5]
       /\ IsSealed(memo)
       /\ memo["status"] = "complete"

\* C3: when the persona service fails in exactly one call of the request, no
\* exception leaves generate_enhanced_memo and the memo it returns is sealed.
C3_FallbackIntegrity ==
    (generation_errors = 1 /\ inp.sentiment_ok) =>
        /\ pc # "raised"
        /\ Returned => IsSealed(memo)

CorePersonas == <<"FundamentalAnalyst", "TechnicalAnalyst", "SentimentAnalyst", "ChiefStrategist", "RiskManager">>

AdvancedRaised == HasEntry("advanced", "raise")

InFallback == pc \in {"fb_fundamental", "fb_technical", "fb_sentiment", "fb_chief", "fb_risk"}

\* C4: once a stage of the advanced workflow has raised, the simplified path runs
\* once: it calls the five core personas in order and nothing else (no debate
\* persona, no memory read or write, nothing stored), the advanced workflow is not
\* entered again, and an exception of the simplified path leaves the call without
\* a memo; the simplified path runs only after such a raise.
C4_FallbackOnce ==
    /\ (InFallback \/ HasEntry("fallback", "call") \/ HasEntry("fallback", "raise")) => AdvancedRaised
    /\ AdvancedRaised =>
        /\ Len(Entries("advanced", "raise")) = 1
        /\ \A i \in 1..Len(log) : \A j \in 1..Len(log) :
              (log[i][1] = "advanced" /\ log[j][1] = "fallback") => i < j
        /\ log[Len(log)][1] = "advanced" => log[Len(log)][2] = "raise"
        /\ IsPrefix(Entries("fallback", "call"), CorePersonas)
        /\ ~HasEntry("fallback", "mem")
        /\ store = <<>>
        /\ pc \notin {"fundamental_analysis", "technical_analysis", "sentiment_analysis", "research_debate",
                      "chief_strategist", "advanced_risk_management", "memory_storage", "seal"}
        /\ Returned => /\ Entries("fallback", "call") = CorePersonas
                       /\ memo["workflow_version"] = "basic_fallback"
        /\ HasEntry("fallback", "raise") <=> pc = "raised"
        /\ pc = "raised" => memo = EmptyMap

C4_Witness ==
    /\ Returned
    /\ AdvancedRaised
    /\ Entries("fallback", "call") = CorePersonas
    /\ HasEntry("advanced", "mem")

\* C5: every memo returned by generate_enhanced_memo carries a status that is
\* complete or error, and a memo with status error carries a non-empty reason.
C5_StatusAlways ==
    Returned =>
        /\ IsSealed(memo)
        /\ memo["status"] = "error" => ("error_message" \in DOMAIN memo /\ Len(memo["error_message"]) > 0)

\* C6: a returned memo with status complete has non-empty fundamental, technical,
\* sentiment and chief-synthesis texts, a recommendation among Buy, Sell, Hold, and
\* the recommendation word occurs (without regard to case) in the chief synthesis.
C6_CompleteImpliesConsistent ==
    (Returned /\ IsSealed(memo) /\ memo["status"] = "complete") =>
        /\ FourTextsPresent(memo)
        /\ memo["recommendation"] \in {Buy, Sell, Hold}
        /\ HasWord(ChiefTextOf(memo), memo["recommendation"])

Applied(fn) == pc = "returned" /\ fcall.fn = fn

BuyWithoutBuyWord == memo["recommendation"] = Buy /\ ~HasWord(memo["chief_strategist_analysis"], Buy)

NamesMismatch(m) == "error_message" \in DOMAIN m /\ IsPrefix(MsgMismatch, m["error_message"])

\* an earlier rule of the validator fails: technical error flag, missing or static
\* price, or an empty stage text
EarlierRuleFails(m, technical_data) ==
    \/ technical_data.error
    \/ technical_data.current_price \in {NoneNum, StaticPrice}
    \/ ~FourTextsPresent(m)

\* C7 (as stated): a memo with recommendation Buy whose chief synthesis contains no
\* form of 'buy' is sealed with status error and a reason naming the mismatch.
C7_Original ==
    (Applied("seal") /\ BuyWithoutBuyWord) =>
        /\ fcall.result["status"] = "error"
        /\ NamesMismatch(fcall.result)

\* C7 (amended): such a memo is always sealed with status error and a non-empty
\* reason; the reason names the recommendation mismatch exactly when no earlier
\* rule fails (no technical error flag, a price that is present and not 100.0,
\* four non-empty stage texts).
C7_ValidationGate ==
    (Applied("seal") /\ BuyWithoutBuyWord) =>
        /\ fcall.result["status"] = "error"
        /\ Len(fcall.result["error_message"]) > 0
        /\ NamesMismatch(fcall.result) <=> ~EarlierRuleFails(memo, inp.technical_data)

C7_Witness ==
    /\ Applied("seal")
    /\ BuyWithoutBuyWord
    /\ NamesMismatch(fcall.result)

\* some consistency rule of the validator fails
RuleFails(m, technical_data) ==
    \/ EarlierRuleFails(m, technical_data)
    \/ m["recommendation"] \notin {Buy, Sell, Hold}
    \/ ~HasWord(m["chief_strategist_analysis"], m["recommendation"])

SealedAsRulesSay(m, before, technical_data) ==
    /\ IsSealed(m)
    /\ m["status"] = "error" <=> RuleFails(before, technical_data)
    /\ m["status"] = "error" => ("error_message" \in DOMAIN m /\ Len(m["error_message"]) > 0)

\* C8: a memo sealed on the advanced path, or by the sealing step applied to any
\* memo, has status error and a non-empty reason exactly when a consistency rule
\* fails and status complete otherwise; sealing raises nothing: after the seal
\* stage the call has returned and the fallback path has not run.
C8_SealedIffRuleFails ==
    /\ Applied("seal") => SealedAsRulesSay(fcall.result, memo, inp.technical_data)
    /\ (Len(log) > 0 /\ log[Len(log)] = <<"advanced", "stage", "seal">>) =>
          /\ Returned
          /\ SealedAsRulesSay(memo, memo, inp.technical_data)
          /\ ~AdvancedRaised
          /\ ~HasEntry("fallback", "call")

C8_Witness ==
    /\ Returned
    /\ Len(log) > 0 /\ log[Len(log)] = <<"advanced", "stage", "seal">>
    /\ memo["status"] = "error"
    /\ ~inp.technical_data.error
    /\ inp.technical_data.current_price = RealPrice

\* _validate_memo exercised through the pipeline and on arbitrary memos
InitSeal == Init \/ InitValidate

NextSeal == Next \/ ApplyValidate

SpecSeal == InitSeal /\ [][NextSeal]_vars

\* C9: the basic extraction yields Buy for a text containing 'buy' and not 'sell',
\* Sell for a text containing 'sell' (with or without 'buy'), Hold for a text
\* containing neither, letter case disregarded.
C9_RecommendationRule ==
    Applied("basic_recommendation") =>
        LET hasBuy == HasWord(fcall.text, Buy)
            hasSell == HasWord(fcall.text, Sell)
        IN  /\ (hasBuy /\ ~hasSell) => fcall.result = Buy
            /\ hasSell => fcall.result = Sell
            /\ (~hasBuy /\ ~hasSell) => fcall.result = Hold

C9_Witness ==
    /\ Applied("basic_recommendation")
    /\ HasWord(fcall.text, Buy)
    /\ HasWord(fcall.text, Sell)
    /\ fcall.result = Sell

\* C10: the recommendation of every returned memo is one of Buy, Sell, Hold.
C10_RecommendationValid == Returned => memo["recommendation"] \in {Buy, Sell, Hold}

\* ------------------------------------------------------------------------
\* ResearchTeam.conduct_research_debate and AdvancedRiskManager.conduct_risk_debate,
\* one persona invocation per step. `inp` holds the arguments (context,
\* debate_rounds), `state` the local variables of the call, `log` the persona
\* invocations in order, `fcall` the returned dictionary.
\* ------------------------------------------------------------------------
\* rounds of a debate in the model
MaxDebateRounds == 3

\* context.get(key, default)
Get(context, key, default) == IF key \in DOMAIN context THEN context[key] ELSE default

\* the context a persona is invoked with: in round 0 the dictionary as it is,
\* later with the entries assigned just before the call
RoundContextAlways(round_num, analysis_context, assigned) == assigned @@ analysis_context

RoundContext(round_num, analysis_context, assigned) ==
    IF round_num = 0 THEN analysis_context ELSE assigned @@ analysis_context

\* debate_history.append(f"Round {round_num + 1} - {label}: {analysis}")
AppendRoundReplacing(debate_history, round_num, label, analysis) ==
    << <<"R","o","u","n","d"," ">> \o <<DigitChars[round_num + 2]>> \o <<" ","-"," ">> \o label \o <<":"," ">> \o analysis >>

AppendRound(debate_history, round_num, label, analysis) ==
    Append(debate_history, <<"R","o","u","n","d"," ">> \o <<DigitChars[round_num + 2]>> \o <<" ","-"," ">> \o label \o <<":"," ">> \o analysis)

\* the prompt BullResearcher.analyze builds: the lines with an interpolated value
BullPrompt(context) ==
    <<"A","n","a","l","y","z","e"," ">> \o Get(context, "ticker", EmptyText) \o <<" ","f","r","o","m"," ","a"," ","B","U","L","L","I","S","H"," ","p","e","r","s","p","e","c","t","i","v","e",".">>
    \o <<"\n","-"," ","F","u","n","d","a","m","e","n","t","a","l"," ","A","n","a","l","y","s","i","s",":"," ">> \o Get(context, "fundamental_analysis", EmptyText)
    \o <<"\n","-"," ","T","e","c","h","n","i","c","a","l"," ","A","n","a","l","y","s","i","s",":"," ">> \o Get(context, "technical_analysis", EmptyText)
    \o <<"\n","-"," ","S","e","n","t","i","m","e","n","t"," ","A","n","a","l","y","s","i","s",":"," ">> \o Get(context, "sentiment_analysis", EmptyText)
    \o <<"\n","-"," ","B","e","a","r"," ","A","r","g","u","m","e","n","t","s"," ","t","o"," ","A","d","d","r","e","s","s",":"," ">> \o Get(context, "bear_arguments", EmptyText)

\* the prompt BearResearcher.analyze builds
BearPrompt(context) ==
    <<"A","n","a","l","y","z","e"," ">> \o Get(context, "ticker", EmptyText) \o <<" ","f","r","o","m"," ","a"," ","B","E","A","R","I","S","H"," ","p","e","r","s","p","e","c","t","i","v","e",".">>
    \o <<"\n","-"," ","F","u","n","d","a","m","e","n","t","a","l"," ","A","n","a","l","y","s","i","s",":"," ">> \o Get(context, "fundamental_analysis", EmptyText)
    \o <<"\n","-"," ","T","e","c","h","n","i","c","a","l"," ","A","n","a","l","y","s","i","s",":"," ">> \o Get(context, "technical_analysis", EmptyText)
    \o <<"\n","-"," ","S","e","n","t","i","m","e","n","t"," ","A","n","a","l","y","s","i","s",":"," ">> \o Get(context, "sentiment_analysis", EmptyText)
    \o <<"\n","-"," ","B","u","l","l"," ","A","r","g","u","m","e","n","t","s"," ","t","o"," ","C","h","a","l","l","e","n","g","e",":"," ">> \o Get(context, "bull_arguments", EmptyText)

\* the prompt the three risk analysts build; `heading` is CONSERVATIVE, AGGRESSIVE or NEUTRAL
RiskPrompt(heading, context) ==
    <<"C","o","n","d","u","c","t"," ","a"," ">> \o heading \o <<" ","r","i","s","k"," ","a","n","a","l","y","s","i","s"," ","f","o","r"," ">> \o Get(context, "ticker", EmptyText)
    \o <<"\n","I","n","v","e","s","t","m","e","n","t"," ","T","h","e","s","i","s",":"," ">> \o Get(context, "investment_thesis", EmptyText)
    \o <<"\n","M","a","r","k","e","t"," ","C","o","n","d","i","t","i","o","n","s",":"," ">> \o Get(context, "market_conditions", EmptyText)
    \o <<"\n","P","r","o","p","o","s","e","d"," ","P","o","s","i","t","i","o","n",":"," ">> \o Get(context, "proposed_position", <<"{","}">>)

\* one persona invocation: what analyze was given, the prompt it sent, what it returned
Invocation(persona, round_num, context, prompt, reply) ==
    [persona |-> persona, round_num |-> round_num, context |-> context, prompt |-> prompt,
     ok |-> reply.ok, analysis |-> CallLLM(persona, reply)]

\* the contexts the risk debate is called with
RiskContexts ==
    { ("ticker" :> <<"T">>) @@ ("investment_thesis" :> c) @@ ("market_conditions" :> <<"F","u","n","d","a","m","e","n","t","a","l",":"," ","S","o","l","i","d"," ","m","a","r","g","i","n","s",".",".",".">>)
      @@ ("proposed_position" :> <<"{","'","s","i","z","e","'",":"," ","5",".","0","}">>) : c \in {<<"D","e","c","i","s","i","o","n",":"," ","h","o","l","d",".">>, EmptyText} }

RiskDebateTexts == {<<"K","e","e","p"," ","e","x","p","o","s","u","r","e"," ","l","o","w">>}

InitDebate ==
    /\ cfg = [memory |-> FALSE, research |-> TRUE, risk |-> TRUE]
    /\ \/ \E context \in { ("ticker" :> <<"T">>) @@ ("fundamental_analysis" :> f) @@ ("technical_analysis" :> <<"U","p","t","r","e","n","d">>)
                           @@ ("sentiment_analysis" :> <<"N","e","w","s"," ","f","l","o","w"," ","p","o","s","i","t","i","v","e">>) : f \in AnalystTexts },
             debate_rounds \in 0..MaxDebateRounds :
            /\ inp = [debate |-> "research", context |-> context, debate_rounds |-> debate_rounds]
            /\ state = [round_num |-> 0,
                        analysis_context |-> [k \in {"ticker", "fundamental_analysis", "technical_analysis",
                                                     "sentiment_analysis"} |-> Get(context, k, EmptyText)],
                        debate_history |-> <<>>, bull_arguments |-> EmptyText, bear_arguments |-> EmptyText]
            /\ pc = IF debate_rounds = 0 THEN "synthesize_debate" ELSE "bull"
       \/ \E context \in RiskContexts, debate_rounds \in 0..MaxDebateRounds :
            /\ inp = [debate |-> "risk", context |-> context, debate_rounds |-> debate_rounds]
            /\ state = [round_num |-> 0,
                        analysis_context |-> [k \in {"ticker", "investment_thesis", "market_conditions",
                                                     "proposed_position"} |-> Get(context, k, EmptyText)],
                        debate_history |-> <<>>, conservative_analysis |-> EmptyText,
                        aggressive_analysis |-> EmptyText, neutral_analysis |-> EmptyText]
            /\ pc = IF debate_rounds = 0 THEN "synthesize_risk_debate" ELSE "conservative"
    /\ log = <<>>
    /\ generation_errors = 0
    /\ store = <<>>
    /\ memo = EmptyMap
    /\ fcall = NoCall

BullStep ==
    /\ pc = "bull"
    /\ \E reply \in Replies(DebateTexts) :
        LET context == RoundContext(state.round_num, state.analysis_context,
                                    "bear_arguments" :> state.bear_arguments)
            call == Invocation("BullResearcher", state.round_num, context, BullPrompt(context), reply)
        IN  /\ state' = [state EXCEPT !.analysis_context = context,
                                      !.bull_arguments = call.analysis,
                                      !.debate_history = AppendRound(@, state.round_num, <<"B","u","l","l"," ","A","n","a","l","y","s","i","s">>, call.analysis)]
            /\ log' = Append(log, call)
            /\ generation_errors' = Count(Failed(reply))
    /\ pc' = "bear"
    /\ UNCHANGED <<cfg, inp, store, memo, fcall>>

BearStep ==
    /\ pc = "bear"
    /\ \E reply \in Replies(DebateTexts) :
        LET context == RoundContext(state.round_num, state.analysis_context,
                                    "bull_arguments" :> state.bull_arguments)
            call == Invocation("BearResearcher", state.round_num, context, BearPrompt(context), reply)
        IN  /\ state' = [state EXCEPT !.analysis_context = context,
                                      !.bear_arguments = call.analysis,
                                      !.debate_history = AppendRound(@, state.round_num, <<"B","e","a","r"," ","A","n","a","l","y","s","i","s">>, call.analysis),
                                      !.round_num = @ + 1]
            /\ log' = Append(log, call)
            /\ generation_errors' = Count(Failed(reply))
    /\ pc' = IF state.round_num + 1 < inp.debate_rounds THEN "bull" ELSE "synthesize_debate"
    /\ UNCHANGED <<cfg, inp, store, memo, fcall>>

\* _synthesize_debate -> _generate_synthesis, then the returned dictionary
SynthesizeDebate ==
    /\ pc = "synthesize_debate"
    /\ IF GenerateSynthesisRaises
       THEN /\ pc' = "raised"
            /\ UNCHANGED <<log, generation_errors, fcall>>
       ELSE \E reply \in Replies(DebateTexts) :
            LET prompt == <<"B","u","l","l"," ","A","n","a","l","y","s","i","s",":"," ">> \o state.bull_arguments \o <<"\n","B","e","a","r"," ","A","n","a","l","y","s","i","s",":"," ">> \o state.bear_arguments
                call == Invocation("BaseAgent", inp.debate_rounds, EmptyMap, prompt, reply)
            IN  /\ log' = Append(log, call)
                /\ generation_errors' = Count(Failed(reply))
                /\ fcall' = [fn |-> "conduct_research_debate",
                             result |-> [bull_analysis |-> state.bull_arguments,
                                         bear_analysis |-> state.bear_arguments,
                                         debate_synthesis |-> call.analysis,
                                         debate_history |-> state.debate_history]]
                /\ pc' = "returned"
    /\ UNCHANGED <<cfg, inp, state, store, memo>>

ConservativeStep ==
    /\ pc = "conservative"
    /\ \E reply \in Replies(RiskDebateTexts) :
        LET context == RoundContext(state.round_num, state.analysis_context,
                                    ("aggressive_arguments" :> state.aggressive_analysis)
                                    @@ ("neutral_arguments" :> state.neutral_analysis))
            call == Invocation("ConservativeRiskAnalyst", state.round_num, context,
                               RiskPrompt(<<"C","O","N","S","E","R","V","A","T","I","V","E">>, context), reply)
        IN  /\ state' = [state EXCEPT !.analysis_context = context,
                                      !.conservative_analysis = call.analysis,
                                      !.debate_history = AppendRound(@, state.round_num, <<"C","o","n","s","e","r","v","a","t","i","v","e">>, call.analysis)]
            /\ log' = Append(log, call)
            /\ generation_errors' = Count(Failed(reply))
    /\ pc' = "aggressive"
    /\ UNCHANGED <<cfg, inp, store, memo, fcall>>

AggressiveStep ==
    /\ pc = "aggressive"
    /\ \E reply \in Replies(RiskDebateTexts) :
        LET context == RoundContext(state.round_num, state.analysis_context,
                                    ("conservative_arguments" :> state.conservative_analysis)
                                    @@ ("neutral_arguments" :> state.neutral_analysis))
            call == Invocation("AggressiveRiskAnalyst", state.round_num, context,
                               RiskPrompt(<<"A","G","G","R","E","S","S","I","V","E">>, context), reply)
        IN  /\ state' = [state EXCEPT !.analysis_context = context,
                                      !.aggressive_analysis = call.analysis,
                                      !.debate_history = AppendRound(@, state.round_num, <<"A","g","g","r","e","s","s","i","v","e">>, call.analysis)]
            /\ log' = Append(log, call)
            /\ generation_errors' = Count(Failed(reply))
    /\ pc' = "neutral"
    /\ UNCHANGED <<cfg, inp, store, memo, fcall>>

NeutralStep ==
    /\ pc = "neutral"
    /\ \E reply \in Replies(RiskDebateTexts) :
        LET context == RoundContext(state.round_num, state.analysis_context,
                                    ("conservative_arguments" :> state.conservative_analysis)
                                    @@ ("aggressive_arguments" :> state.aggressive_analysis))
            call == Invocation("NeutralRiskAnalyst", state.round_num, context,
                               RiskPrompt(<<"N","E","U","T","R","A","L">>, context), reply)
        IN  /\ state' = [state EXCEPT !.analysis_context = context,
                                      !.neutral_analysis = call.analysis,
                                      !.debate_history = AppendRound(@, state.round_num, <<"N","e","u","t","r","a","l">>, call.analysis),
                                      !.round_num = @ + 1]
            /\ log' = Append(log, call)
            /\ generation_errors' = Count(Failed(reply))
    /\ pc' = IF state.round_num + 1 < inp.debate_rounds THEN "conservative" ELSE "synthesize_risk_debate"
    /\ UNCHANGED <<cfg, inp, store, memo, fcall>>

\* _synthesize_risk_debate -> _generate_synthesis, then the returned dictionary
SynthesizeRiskDebate ==
    /\ pc = "synthesize_risk_debate"
    /\ IF GenerateSynthesisRaises
       THEN /\ pc' = "raised"
            /\ UNCHANGED <<log, generation_errors, fcall>>
       ELSE \E reply \in Replies(RiskDebateTexts) :
            LET prompt == <<"C","o","n","s","e","r","v","a","t","i","v","e"," ","A","n","a","l","y","s","i","s",":"," ">> \o state.conservative_analysis
                          \o <<"\n","A","g","g","r","e","s","s","i","v","e"," ","A","n","a","l","y","s","i","s",":"," ">> \o state.aggressive_analysis
                          \o <<"\n","N","e","u","t","r","a","l"," ","A","n","a","l","y","s","i","s",":"," ">> \o state.neutral_analysis
                call == Invocation("BaseAgent", inp.debate_rounds, EmptyMap, prompt, reply)
            IN  /\ log' = Append(log, call)
                /\ generation_errors' = Count(Failed(reply))
                /\ fcall' = [fn |-> "conduct_risk_debate",
                             result |-> [conservative_analysis |-> state.conservative_analysis,
                                         aggressive_analysis |-> state.aggressive_analysis,
                                         neutral_analysis |-> state.neutral_analysis,
                                         risk_synthesis |-> call.analysis,
                                         debate_history |-> state.debate_history]]
                /\ pc' = "returned"
    /\ UNCHANGED <<cfg, inp, state, store, memo>>

NextDebate ==
    \/ BullStep
    \/ BearStep
    \/ SynthesizeDebate
    \/ ConservativeStep
    \/ AggressiveStep
    \/ NeutralStep
    \/ SynthesizeRiskDebate

SpecDebate == InitDebate /\ [][NextDebate]_vars

\* ------------------------------------------------------------------------
\* Properties of the debates
\* ------------------------------------------------------------------------
ResearchPersonas == {"BullResearcher", "BearResearcher"}

RiskPersonas == {"ConservativeRiskAnalyst", "AggressiveRiskAnalyst", "NeutralRiskAnalyst"}

DebateCalls == {log[i] : i \in 1..Len(log)}

\* the invocation of a persona in a round that has taken place
CallOf(persona, round_num) == CHOOSE c \in DebateCalls : c.persona = persona /\ c.round_num = round_num

\* the key under which a risk persona's output is handed to the others
ArgumentsKey(persona) ==
    CASE persona = "ConservativeRiskAnalyst" -> "conservative_arguments"
      [] persona = "AggressiveRiskAnalyst" -> "aggressive_arguments"
      [] persona = "NeutralRiskAnalyst" -> "neutral_arguments"

DebateOver == pc \in {"raised", "returned"}

RoundLabel(round_num) == <<"R","o","u","n","d"," ">> \o <<DigitChars[round_num + 2]>> \o <<" ","-"," ">>

\* C11: in the research debate, the prompt of the bull (bear) in every round
\* k > 0 contains the bear's (bull's) output of round k-1 verbatim, and contains
\* no different output of the counterpart from round k-2 or earlier.
C11_RoundMonotone ==
    \A c \in DebateCalls :
        (c.persona \in ResearchPersonas /\ c.round_num > 0) =>
            LET other == CHOOSE p \in ResearchPersonas : p # c.persona
                previous == CallOf(other, c.round_num - 1).analysis
            IN  /\ Contains(c.prompt, previous)
                /\ \A j \in 0..(c.round_num - 2) :
                     CallOf(other, j).analysis # previous => ~Contains(c.prompt, CallOf(other, j).analysis)

\* C12: in the risk debate, every persona is invoked in every round k > 0 with
\* the round k-1 outputs of the other two personas in its context, and its
\* prompt contains those two outputs.
C12_OpposingOutputsInPrompt ==
    \A c \in DebateCalls :
        (c.persona \in RiskPersonas /\ c.round_num > 0) =>
            \A other \in RiskPersonas \ {c.persona} :
                LET previous == CallOf(other, c.round_num - 1).analysis
                IN  /\ Get(c.context, ArgumentsKey(other), EmptyText) = previous
                    /\ Contains(c.prompt, previous)

\* C13: every round-0 invocation of both debates is given exactly the shared
\* context, and its prompt contains no output of another persona of the debate.
C13_RoundZeroSharedOnly ==
    \A c \in DebateCalls :
        (c.persona \in ResearchPersonas \cup RiskPersonas /\ c.round_num = 0) =>
            /\ c.context = inp.context
            /\ \A d \in DebateCalls : d.persona # c.persona => ~Contains(c.prompt, d.analysis)

C13_Witness ==
    /\ inp.debate = "research"
    /\ Len(log) >= 3
    /\ log[2].persona = "BearResearcher" /\ log[2].round_num = 0
    /\ log[1].analysis # log[3].analysis

\* C14: once the rounds of a debate are over the debate returns, having made
\* exactly one synthesizer invocation whose prompt contains the final-round
\* output of every persona, with that narrative and the final-round outputs in
\* the result.
C14_SynthesisOnce ==
    DebateOver =>
        /\ pc = "returned"
        /\ Cardinality({i \in 1..Len(log) : log[i].persona = "BaseAgent"}) = 1
        /\ LET synthesis == log[Len(log)]
               personas == IF inp.debate = "research" THEN ResearchPersonas ELSE RiskPersonas
           IN  /\ synthesis.persona = "BaseAgent"
               /\ \A p \in personas :
                    inp.debate_rounds > 0 => Contains(synthesis.prompt, CallOf(p, inp.debate_rounds - 1).analysis)
               /\ synthesis.analysis \in {fcall.result[k] : k \in DOMAIN fcall.result}

\* C15: a failed persona call leaves an error text as that persona's entry of
\* the round, and the debate is never aborted: it goes on to return a result
\* whose output slots all hold a text.
C15_NeverAborted ==
    /\ \A i \in 1..Len(log) :
         ~log[i].ok => /\ IsPrefix(<<"E","r","r","o","r"," ","i","n"," ">>, log[i].analysis)
                       /\ i <= Len(state.debate_history)
                       /\ Contains(state.debate_history[i], log[i].analysis)
    /\ pc # "raised"
    /\ pc = "returned" =>
         \A k \in DOMAIN fcall.result \ {"debate_history"} : fcall.result[k] \in Seq(STRING)

\* C16: the prompt a persona is about to be given in a round is the same
\* whatever the personas invoked before it in that round have answered.
C16_SidesIndependent ==
    /\ pc = "bear" =>
         \A reply \in Replies(DebateTexts) :
            BearPrompt(RoundContext(state.round_num, state.analysis_context,
                                    "bull_arguments" :> CallLLM("BullResearcher", reply)))
            = BearPrompt(RoundContext(state.round_num, state.analysis_context,
                                      "bull_arguments" :> state.bull_arguments))
    /\ pc = "aggressive" =>
         \A reply \in Replies(RiskDebateTexts) :
            RiskPrompt(<<"A","G","G","R","E","S","S","I","V","E">>, RoundContext(state.round_num, state.analysis_context,
                                    ("conservative_arguments" :> CallLLM("ConservativeRiskAnalyst", reply))
                                    @@ ("neutral_arguments" :> state.neutral_analysis)))
            = RiskPrompt(<<"A","G","G","R","E","S","S","I","V","E">>, RoundContext(state.round_num, state.analysis_context,
                                    ("conservative_arguments" :> state.conservative_analysis)
                                    @@ ("neutral_arguments" :> state.neutral_analysis)))

\* one step of a debate seen from its history
HistoryStep ==
    LET before == state.debate_history
        after == state'.debate_history
        personas == IF inp.debate = "research" THEN 2 ELSE 3
        invoked == {i \in 1..Len(log') : i > Len(log) /\ log'[i].persona # "BaseAgent"}
    IN  /\ IsPrefix(before, after)
        /\ Len(after) - Len(before) = Cardinality(invoked)
        /\ Cardinality(invoked) <= 1
        /\ \A i \in invoked : /\ i = Len(after)
                              /\ IsPrefix(RoundLabel(log'[i].round_num), after[i])
        /\ pc' \in {"synthesize_debate", "synthesize_risk_debate", "raised", "returned"} =>
             /\ Len(after) = personas * inp.debate_rounds
             /\ \A i \in 1..Len(after) : IsPrefix(RoundLabel((i - 1) \div personas), after[i])

\* C17: every persona invocation appends exactly one entry labelled with its
\* round number to the debate history, entries already there are never
\* changed, reordered or removed, and after the last round the history holds
\* the entries of rounds 1..R in invocation order (2R, or 3R for the risk debate).
C17_HistoryAppendOnly == [][HistoryStep]_vars

C17_Witness ==
    /\ inp.debate = "risk"
    /\ pc = "raised"
    /\ Len(state.debate_history) = 6
    /\ \E i \in 1..6 : ~log[i].ok

\* ------------------------------------------------------------------------
\* MemorySystem: store_memo, update_memo_outcome, find_similar_memos on the
\* memory table. `store` holds the rows in rowid order, `fcall` the last
\* operation with its arguments and result. Timestamps are seconds counted
\* from 1; 0 stands for a NULL outcome_date, "NULL" for a NULL outcome.
\* ------------------------------------------------------------------------
\* the last second of the clock in the model
MaxClock == 2

\* the second an operation runs in: the latest second on record, or the next
Now(rows) ==
    LET last == IF rows = <<>> THEN 0
                ELSE CHOOSE t \in 0..MaxClock :
                       /\ \A i \in 1..Len(rows) : rows[i].created_at <= t /\ rows[i].outcome_date <= t
                       /\ \E i \in 1..Len(rows) : t \in {rows[i].created_at, rows[i].outcome_date}
    IN  {t \in {last, last + 1} : 1 <= t /\ t <= MaxClock}

\* memory_storage_node: 'id': f"{state['ticker']}_{datetime.now().strftime('%Y%m%d_%H%M%S')}"
MemoId(now) == <<"T","_">> \o <<DigitChars[now + 1]>>

\* json.dumps(performance_metrics or {}) of the metrics None, {} and {'pnl': 1}
JsonDumps(performance_metrics) == IF performance_metrics = "{'pnl': 1}" THEN "{\"pnl\": 1}" ELSE "{}"

\* json.loads(text) if text else {}
JsonLoads(text) == IF text = "{\"pnl\": 1}" THEN "{'pnl': 1}" ELSE "{}"

\* INSERT OR REPLACE INTO memory: a row with the same memo_id is deleted, the
\* new row gets a new rowid and created_at = CURRENT_TIMESTAMP
StoreMemoRows(rows, memo_data, now) ==
    SelectSeq(rows, LAMBDA r : r.memo_id # memo_data["id"])
    \o << [memo_id |-> memo_data["id"], ticker |-> memo_data["ticker"],
           investment_thesis |-> Get(memo_data, "investment_thesis", EmptyText),
           risk_assessment |-> Get(memo_data, "risk_assessment", EmptyText),
           decision |-> Get(memo_data, "decision", EmptyText),
           outcome |-> Get(memo_data, "outcome", "NULL"),
           outcome_date |-> Get(memo_data, "outcome_date", 0),
           performance_metrics |-> JsonDumps(Get(memo_data, "performance_metrics", "{}")),
           created_at |-> now] >>

\* variant: a second outcome for a row clears the first
UpdateMemoOutcomeRowsClearing(rows, memo_id, outcome, performance_metrics, now) ==
    [i \in 1..Len(rows) |->
        IF rows[i].memo_id = memo_id
        THEN [rows[i] EXCEPT !.outcome = IF @ = "NULL" THEN outcome ELSE "NULL", !.outcome_date = now,
                             !.performance_metrics = JsonDumps(performance_metrics)]
        ELSE rows[i]]

\* UPDATE memory SET outcome = ?, outcome_date = ?, performance_metrics = ? WHERE memo_id = ?
UpdateMemoOutcomeRows(rows, memo_id, outcome, performance_metrics, now) ==
    [i \in 1..Len(rows) |->
        IF rows[i].memo_id = memo_id
        THEN [rows[i] EXCEPT !.outcome = outcome, !.outcome_date = now,
                             !.performance_metrics = JsonDumps(performance_metrics)]
        ELSE rows[i]]

\* a / b >= c / d for fractions with positive denominators
Geq(a, b) == a.n * b.d >= b.n * a.d

\* a stable sort of <<key, item>> pairs into non-increasing order of the
\* keys, as list.sort(key=..., reverse=True) and ORDER BY ... DESC
RECURSIVE SortDescending(_)
SortDescending(pairs) ==
    IF pairs = <<>> THEN <<>>
    ELSE LET sorted == SortDescending(SubSeq(pairs, 1, Len(pairs) - 1))
             x == pairs[Len(pairs)]
             k == Cardinality({i \in 1..Len(sorted) : Geq(sorted[i][1], x[1])})
         IN  [i \in 1..Len(pairs) |-> IF i <= k THEN sorted[i] ELSE IF i = k + 1 THEN x ELSE sorted[i - 1]]

\* variant: the rows without an outcome are selected too
HistoricalMemosAll(rows) ==
    LET ordered == SortDescending([i \in 1..Len(rows) |-> <<Rat(rows[i].created_at, 1), rows[i]>>])
    IN  [i \in 1..Len(ordered) |-> ordered[i][2]]

\* SELECT ... FROM memory WHERE outcome IS NOT NULL ORDER BY created_at DESC
HistoricalMemos(rows) ==
    LET selected == SelectSeq(rows, LAMBDA r : r.outcome # "NULL")
        ordered == SortDescending([i \in 1..Len(selected) |-> <<Rat(selected[i].created_at, 1), selected[i]>>])
    IN  [i \in 1..Len(ordered) |-> ordered[i][2]]

\* variant: the list is cut to `limit` before it is sorted
FindSimilarMemosCutFirst(rows, limit, min_similarity, similarities, raises) ==
    LET historical_memos == HistoricalMemos(rows)
        scored == [i \in 1..Len(historical_memos) |->
                     [memo_id |-> historical_memos[i].memo_id, ticker |-> historical_memos[i].ticker,
                      investment_thesis |-> historical_memos[i].investment_thesis,
                      risk_assessment |-> historical_memos[i].risk_assessment,
                      outcome |-> historical_memos[i].outcome,
                      performance_metrics |-> JsonLoads(historical_memos[i].performance_metrics),
                      created_at |-> historical_memos[i].created_at,
                      similarity_score |-> similarities[i]]]
        similar_memos == SelectSeq(scored, LAMBDA m : Geq(m.similarity_score, min_similarity))
    IN  IF historical_memos = <<>> \/ raises THEN <<>>
        ELSE LET cut == SubSeq(similar_memos, 1, Min({limit, Len(similar_memos)}))
                 sorted == SortDescending([i \in 1..Len(cut) |-> <<cut[i].similarity_score, cut[i]>>])
             IN  [i \in 1..Len(sorted) |-> sorted[i][2]]

\* find_similar_memos: `similarities` is what cosine_similarity gives for the
\* selected rows, `raises` whether the vectorizer raises (the except branch)
FindSimilarMemos(rows, limit, min_similarity, similarities, raises) ==
    LET historical_memos == HistoricalMemos(rows)
        scored == [i \in 1..Len(historical_memos) |->
                     [memo_id |-> historical_memos[i].memo_id, ticker |-> historical_memos[i].ticker,
                      investment_thesis |-> historical_memos[i].investment_thesis,
                      risk_assessment |-> historical_memos[i].risk_assessment,
                      outcome |-> historical_memos[i].outcome,
                      performance_metrics |-> JsonLoads(historical_memos[i].performance_metrics),
                      created_at |-> historical_memos[i].created_at,
                      similarity_score |-> similarities[i]]]
        similar_memos == SelectSeq(scored, LAMBDA m : Geq(m.similarity_score, min_similarity))
        sorted == SortDescending([i \in 1..Len(similar_memos) |-> <<similar_memos[i].similarity_score, similar_memos[i]>>])
    IN  IF historical_memos = <<>> \/ raises THEN <<>>
        ELSE [i \in 1..Min({limit, Len(sorted)}) |-> sorted[i][2]]

\* the values cosine_similarity takes in the model
SimilarityValues == {Rat(3, 10), Rat(1, 2)}

InitMemory ==
    /\ cfg = [memory |-> TRUE, research |-> FALSE, risk |-> FALSE]
    /\ inp = [sentiment_ok |-> TRUE]
    /\ pc = "memory"
    /\ state = EmptyMap
    /\ log = <<>>
    /\ generation_errors = 0
    /\ store = <<>>
    /\ memo = EmptyMap
    /\ fcall = NoCall

\* store_memo with the memo_data of memory_storage_node; `success` is FALSE in the except branch
StoreMemo ==
    /\ \E now \in Now(store), success \in BOOLEAN :
        LET memo_data == ("id" :> MemoId(now)) @@ ("ticker" :> <<"T">>)
                         @@ ("investment_thesis" :> <<"D","e","c","i","s","i","o","n",":"," ","h","o","l","d",".">>)
                         @@ ("risk_assessment" :> <<"K","e","e","p"," ","e","x","p","o","s","u","r","e"," ","l","o","w">>) @@ ("decision" :> HOLD)
        IN  /\ store' = IF success THEN StoreMemoRows(store, memo_data, now) ELSE store
            /\ fcall' = [fn |-> "store_memo", memo_id |-> MemoId(now), result |-> success]
    /\ UNCHANGED <<cfg, inp, pc, state, log, generation_errors, memo>>

\* variant: the UPDATE has no WHERE clause
UpdateMemoOutcomeEveryRow ==
    /\ \E now \in Now(store), t \in 1..MaxClock, outcome \in {"profit", "loss"},
          performance_metrics \in {"None", "{'pnl': 1}"} :
        LET call == [fn |-> "update_memo_outcome", memo_id |-> MemoId(t), outcome |-> outcome,
                     performance_metrics |-> performance_metrics, result |-> TRUE]
        IN  /\ store' = [i \in 1..Len(store) |->
                            [store[i] EXCEPT !.outcome = outcome, !.outcome_date = now,
                                             !.performance_metrics = JsonDumps(performance_metrics)]]
            /\ fcall' = [repeats |-> fcall \in {call @@ [repeats |-> b] : b \in BOOLEAN}] @@ call
    /\ UNCHANGED <<cfg, inp, pc, state, log, generation_errors, memo>>

\* update_memo_outcome(memo_id, outcome, performance_metrics); `repeats` tells
\* that the call before it was the same call
UpdateMemoOutcome ==
    /\ \E now \in Now(store), t \in 1..MaxClock, outcome \in {"profit", "loss"},
          performance_metrics \in {"None", "{'pnl': 1}"} :
        LET call == [fn |-> "update_memo_outcome", memo_id |-> MemoId(t), outcome |-> outcome,
                     performance_metrics |-> performance_metrics, result |-> TRUE]
        IN  /\ store' = UpdateMemoOutcomeRows(store, MemoId(t), outcome, performance_metrics, now)
            /\ fcall' = [repeats |-> fcall \in {call @@ [repeats |-> b] : b \in BOOLEAN}] @@ call
    /\ UNCHANGED <<cfg, inp, pc, state, log, generation_errors, memo>>

\* find_similar_memos(current_memo, limit, min_similarity), limit = 10 and
\* min_similarity = 0.3 being the defaults; when the vectorizer raises there
\* are no similarities
FindSimilarMemosCall ==
    /\ \E limit \in {1, 10}, min_similarity \in {Rat(3, 10), Rat(1, 2)}, raises \in BOOLEAN :
        \E similarities \in [1..(IF raises THEN 0 ELSE Len(HistoricalMemos(store))) -> SimilarityValues] :
            fcall' = [fn |-> "find_similar_memos", limit |-> limit, min_similarity |-> min_similarity,
                      historical_memos |-> HistoricalMemos(store),
                      similarities |-> similarities, raises |-> raises,
                      result |-> FindSimilarMemos(store, limit, min_similarity, similarities, raises)]
    /\ UNCHANGED <<cfg, inp, pc, state, log, generation_errors, store, memo>>

\* get_memory_insights(current_memo) as the nodes of the enhanced workflow call
\* it, and the memory_context they put into the context of their stage:
\* memory_insights.get('general_analysis', 'No historical context available');
\* every historical memo is given the same similarity here
GetMemoryInsights ==
    /\ \E raises \in BOOLEAN, reply \in Replies({<<"P","a","s","t"," ","b","u","y","s"," ","a","f","t","e","r"," ","s","t","r","o","n","g"," ","m","a","r","g","i","n","s"," ","p","a","i","d"," ","o","f","f">>}) :
        \E similarity \in SimilarityValues :
            LET similarities == [i \in 1..(IF raises THEN 0 ELSE Len(HistoricalMemos(store))) |-> similarity]
                similar_memos == FindSimilarMemos(store, 10, Rat(3, 10), similarities, raises)
                insights == [insight_type \in {"pattern_analysis", "outcome_analysis", "improvement_suggestions"} |->
                                IF similar_memos = <<>>
                                THEN <<"N","o"," ","s","i","m","i","l","a","r"," ","h","i","s","t","o","r","i","c","a","l"," ","m","e","m","o","s"," ","f","o","u","n","d"," ","f","o","r"," ">> \o
                                     (CASE insight_type = "pattern_analysis" -> <<"p","a","t","t","e","r","n"," ","a","n","a","l","y","s","i","s",".">>
                                        [] insight_type = "outcome_analysis" -> <<"o","u","t","c","o","m","e"," ","a","n","a","l","y","s","i","s",".">>
                                        [] OTHER -> <<"i","m","p","r","o","v","e","m","e","n","t"," ","s","u","g","g","e","s","t","i","o","n","s",".">>)
                                ELSE CallLLM("MemoryAgent", reply)]
            IN  fcall' = [fn |-> "get_memory_insights", similar_memos_count |-> Len(similar_memos), insights |-> insights,
                          memory_context |-> Get(insights, "general_analysis", <<"N","o"," ","h","i","s","t","o","r","i","c","a","l"," ","c","o","n","t","e","x","t"," ","a","v","a","i","l","a","b","l","e">>)]
    /\ UNCHANGED <<cfg, inp, pc, state, log, generation_errors, store, memo>>

NextMemory == StoreMemo \/ UpdateMemoOutcome \/ FindSimilarMemosCall \/ GetMemoryInsights

SpecMemory == InitMemory /\ [][NextMemory]_vars

\* ------------------------------------------------------------------------
\* Properties of the memory system
\* ------------------------------------------------------------------------
\* the memo ids of a list of records
MemoIds(records) == {records[i].memo_id : i \in 1..Len(records)}

\* the selected rows that a finished find_similar_memos left out although
\* their similarity reaches min_similarity
OmittedEligible ==
    {i \in 1..Len(fcall.similarities) :
        /\ fcall.historical_memos[i].memo_id \notin MemoIds(fcall.result)
        /\ Geq(fcall.similarities[i], fcall.min_similarity)}

\* C18: find_similar_memos returns only records whose similarity score is at
\* least min_similarity, at most `limit` of them, in non-increasing order of
\* the score, and no record it left out that reaches min_similarity has a
\* higher score than a record it returned.
C18_FindSimilarTopK ==
    fcall.fn = "find_similar_memos" =>
        /\ Len(fcall.result) <= fcall.limit
        /\ \A j \in 1..Len(fcall.result) :
            /\ Geq(fcall.result[j].similarity_score, fcall.min_similarity)
            /\ \E i \in 1..Len(fcall.similarities) :
                /\ fcall.historical_memos[i].memo_id = fcall.result[j].memo_id
                /\ fcall.similarities[i] = fcall.result[j].similarity_score
            /\ \A k \in 1..Len(fcall.result) :
                j < k => Geq(fcall.result[j].similarity_score, fcall.result[k].similarity_score)
            /\ \A i \in OmittedEligible : Geq(fcall.result[j].similarity_score, fcall.similarities[i])
        /\ (OmittedEligible # {} => Len(fcall.result) = fcall.limit)

\* a call with limit 1 returned one record and left out one that reaches
\* min_similarity with a lower score
C18_Witness ==
    /\ fcall.fn = "find_similar_memos"
    /\ Len(fcall.result) = 1
    /\ \E i \in OmittedEligible : ~Geq(fcall.similarities[i], fcall.result[1].similarity_score)

\* C19: find_similar_memos never returns a record whose outcome is unset: a
\* memo stored by the memory-write stage has no outcome and is outside the
\* pool until update_memo_outcome has given it one, and is in the pool after.
C19_NoUnsetOutcome ==
    /\ (fcall.fn = "store_memo" /\ fcall.result) =>
        \E i \in 1..Len(store) : store[i].memo_id = fcall.memo_id /\ store[i].outcome = "NULL"
    /\ fcall.fn = "find_similar_memos" =>
        /\ \A j \in 1..Len(fcall.result) : fcall.result[j].outcome # "NULL"
        /\ \A i \in 1..Len(store) :
            store[i].outcome = "NULL" => store[i].memo_id \notin MemoIds(fcall.result)
        /\ ( /\ ~fcall.raises
             /\ fcall.limit >= Len(store)
             /\ \A i \in 1..Len(fcall.similarities) : Geq(fcall.similarities[i], fcall.min_similarity) )
           => MemoIds(fcall.result) = {store[i].memo_id : i \in {k \in 1..Len(store) : store[k].outcome # "NULL"}}

\* a call returned a record while the table also holds a memo without outcome
C19_Witness ==
    /\ fcall.fn = "find_similar_memos"
    /\ fcall.result # <<>>
    /\ \E i \in 1..Len(store) : store[i].outcome = "NULL"

\* the records find_similar_memos returns on `rows`, for every limit,
\* threshold and similarity vector of the model
FindSimilarSets(rows) ==
    LET n == Cardinality({i \in 1..Len(rows) : rows[i].outcome # "NULL"})
    IN  [a \in {1, 10} \X {Rat(3, 10), Rat(1, 2)} \X [1..n -> SimilarityValues] |->
            LET result == FindSimilarMemos(rows, a[1], a[2], a[3], FALSE)
            IN  {result[j] : j \in 1..Len(result)}]

\* C20: update_memo_outcome applied a second time in a row with the same
\* arguments leaves the outcome label and the performance metrics of every
\* record, and the set of records find_similar_memos returns, as they were
\* after the first application.
C20_UpdateIdempotent ==
    [][(fcall'.fn = "update_memo_outcome" /\ fcall'.repeats) =>
          /\ Len(store') = Len(store)
          /\ \A i \in 1..Len(store) :
                /\ store'[i].outcome = store[i].outcome
                /\ store'[i].performance_metrics = store[i].performance_metrics
          /\ FindSimilarSets(store') = FindSimilarSets(store)]_vars

\* the same update was applied twice in a row to a stored memo, the second
\* time in a later second
C20_Witness ==
    /\ fcall.fn = "update_memo_outcome"
    /\ fcall.repeats
    /\ \E i \in 1..Len(store) :
        /\ store[i].memo_id = fcall.memo_id
        /\ store[i].outcome = fcall.outcome
        /\ store[i].outcome_date > store[i].created_at

\* ------------------------------------------------------------------------
\* Properties of the memory context and of the memory table
\* ------------------------------------------------------------------------
\* C21: when similar historical records are retrieved, the memory context that
\* is put into the context of the research-debate, chief-synthesis and
\* risk-debate stages is the guidance text the memory agent produced from
\* them, not a fixed placeholder.
C21_MemoryContextIsGuidance ==
    (fcall.fn = "get_memory_insights" /\ fcall.similar_memos_count > 0) =>
        fcall.memory_context \in {fcall.insights[k] : k \in DOMAIN fcall.insights}

\* C22: the historical store only grows: store_memo never removes, replaces or
\* alters a record stored by an earlier memory write, nor an outcome attached
\* to it.
C22_StoreOnlyGrows ==
    [][fcall'.fn = "store_memo" =>
          /\ Len(store') >= Len(store)
          /\ \A i \in 1..Len(store) : store'[i] = store[i]]_vars

\* the columns of a memory row that update_memo_outcome does not write
Kept(row) == [c \in {"memo_id", "ticker", "investment_thesis", "risk_assessment", "decision", "created_at"} |-> row[c]]

\* C28: update_memo_outcome changes only the outcome, the outcome date and the
\* performance metrics of the record whose identifier it is given; the other
\* columns of that record and every other record are unchanged, and with no
\* such record the whole table is unchanged.
C28_UpdateFrame ==
    [][fcall'.fn = "update_memo_outcome" =>
          /\ Len(store') = Len(store)
          /\ \A i \in 1..Len(store) :
                IF store[i].memo_id = fcall'.memo_id
                THEN /\ Kept(store'[i]) = Kept(store[i])
                     /\ store'[i].outcome = fcall'.outcome
                ELSE store'[i] = store[i]]_vars

\* an outcome was attached to one of two stored memos
C28_Witness ==
    /\ fcall.fn = "update_memo_outcome"
    /\ \E i, j \in 1..Len(store) :
        /\ store[i].memo_id = fcall.memo_id
        /\ store[i].outcome = fcall.outcome
        /\ store[j].memo_id # fcall.memo_id
        /\ store[j].outcome # fcall.outcome

\* ------------------------------------------------------------------------
\* The memos table of the service (main.py). `store` holds the DBMemo rows in
\* the order of their ids; `generating` marks a row whose request is still
\* running in the server process. The table is empty at first, as the
\* memory table is.
\* ------------------------------------------------------------------------
\* the number of rows the table holds in the model
MaxMemos == 2

\* generate_enhanced_memo up to its first commit: the row is created pending
GenerateEnhancedMemoCreate ==
    /\ Len(store) < MaxMemos
    /\ store' = Append(store, [status |-> "pending", recommendation |-> Hold, generating |-> TRUE])
    /\ fcall' = [fn |-> "generate_enhanced_memo", memo_id |-> Len(store) + 1]
    /\ UNCHANGED <<cfg, inp, pc, state, log, generation_errors, memo>>

\* generate_enhanced_memo from the orchestrator's answer to its last commit:
\* memo_data carries a recommendation and may carry a status; `raises` is the
\* except branch
GenerateEnhancedMemoFinish ==
    /\ \E i \in 1..Len(store), raises \in BOOLEAN, recommendation \in {Buy, Sell, HOLD},
          status \in {"complete", "error", "None"} :
        /\ store[i].generating
        /\ store' = [store EXCEPT ![i] =
                        IF raises
                        THEN [@ EXCEPT !.status = "error", !.generating = FALSE]
                        ELSE [status |-> IF status = "None" THEN "complete" ELSE status,
                              recommendation |-> IF recommendation \in ValidRecommendations
                                                 THEN recommendation ELSE Hold,
                              generating |-> FALSE]]
        /\ fcall' = [fn |-> "generate_enhanced_memo", memo_id |-> i]
    /\ UNCHANGED <<cfg, inp, pc, state, log, generation_errors, memo>>

\* startup_event of a restarted server: no request of the old process is
\* running any more
StartupEvent ==
    /\ store' = [i \in 1..Len(store) |->
                    [status |-> IF store[i].status \in {"pending", "error"} THEN "complete" ELSE store[i].status,
                     recommendation |-> IF store[i].recommendation \in ValidRecommendations
                                        THEN store[i].recommendation ELSE Hold,
                     generating |-> FALSE]]
    /\ fcall' = [fn |-> "startup_event", memo_id |-> 0]
    /\ UNCHANGED <<cfg, inp, pc, state, log, generation_errors, memo>>

\* cleanup_pending_memos
CleanupPendingMemos ==
    /\ store' = [i \in 1..Len(store) |->
                    IF store[i].status = "pending" THEN [store[i] EXCEPT !.status = "rejected"] ELSE store[i]]
    /\ fcall' = [fn |-> "cleanup_pending_memos", memo_id |-> 0]
    /\ UNCHANGED <<cfg, inp, pc, state, log, generation_errors, memo>>

NextService == GenerateEnhancedMemoCreate \/ GenerateEnhancedMemoFinish \/ StartupEvent \/ CleanupPendingMemos

SpecService == InitMemory /\ [][NextService]_vars

\* C23: sealing is final: once the status of a memo is complete or error, no
\* later operation of the service changes its status or its recommendation.
C23_SealingFinal ==
    [][\A i \in 1..Len(store) :
          store[i].status \in {"complete", "error"} =>
              /\ store'[i].status = store[i].status
              /\ store'[i].recommendation = store[i].recommendation]_vars

SignalTexts ==
    UNION {{<<"c","o","n","f","i","d","e","n","c","e",":"," ">> \o number \o <<"%">>, <<"C","o","n","f","i","d","e","n","c","e"," ","l","e","v","e","l"," ","o","f"," ">> \o number \o <<"/","1","0">>, number \o <<"%"," ","c","o","n","f","i","d","e","n","c","e">>} :
            number \in {<<"0">>, <<"5">>, <<"7">>, <<"8","5">>, <<"1","5","0">>}}
    \cup {EmptyText, <<"N","o"," ","c","l","e","a","r"," ","v","i","e","w">>, <<"v","o","l","a","t","i","l","e"," ","u","n","c","e","r","t","a","i","n","t","y">>, <<"s","a","f","e"," ","s","t","a","b","l","e"," ","d","e","f","e","n","s","i","v","e"," ","l","o","w"," ","r","i","s","k">>,
          <<"s","a","f","e"," ","s","t","a","b","l","e"," ","c","o","n","s","e","r","v","a","t","i","v","e">>, <<"d","a","n","g","e","r"," ","w","a","r","n","i","n","g"," ","c","a","u","t","i","o","n">>, <<"H","i","g","h"," ","r","i","s","k">>,
          <<"0","%"," ","p","o","s","i","t","i","o","n",","," ","s","t","a","b","l","e">>, <<"3","%"," ","o","f"," ","p","o","r","t","f","o","l","i","o">>, <<"P","o","s","i","t","i","o","n"," ","s","i","z","e",":"," ","1","0","%">>}

\* AgentOrchestrator._extract_confidence_score
ApplyBasicExtractConfidenceScore ==
    /\ fcall = NoCall
    /\ \E analysis \in SignalTexts :
        fcall' = [fn |-> "basic_confidence_score", analysis |-> analysis,
                  result |-> BasicExtractConfidenceScore(analysis)]
    /\ UNCHANGED <<cfg, inp, pc, state, log, generation_errors, store, memo>>

\* EnhancedAgentOrchestrator._extract_confidence_score
ApplyEnhancedExtractConfidenceScore ==
    /\ fcall = NoCall
    /\ \E analysis \in SignalTexts :
        fcall' = [fn |-> "enhanced_confidence_score", analysis |-> analysis,
                  result |-> EnhancedExtractConfidenceScore(analysis)]
    /\ UNCHANGED <<cfg, inp, pc, state, log, generation_errors, store, memo>>

\* a variant that maps the share of the safety keywords to the scale
CalculateRiskScoreSafetyShare(conservative, aggressive, neutral) ==
    LET risk_keywords == {<<"h","i","g","h"," ","r","i","s","k">>, <<"v","o","l","a","t","i","l","e">>, <<"u","n","c","e","r","t","a","i","n","t","y">>, <<"d","a","n","g","e","r">>, <<"w","a","r","n","i","n","g">>, <<"c","a","u","t","i","o","n">>}
        safety_keywords == {<<"s","a","f","e">>, <<"s","t","a","b","l","e">>, <<"c","o","n","s","e","r","v","a","t","i","v","e">>, <<"l","o","w"," ","r","i","s","k">>, <<"d","e","f","e","n","s","i","v","e">>}
        texts == <<Lower(conservative), Lower(aggressive), Lower(neutral)>>
        risk_count == Cardinality({p \in (1..3) \X risk_keywords : Contains(texts[p[1]], p[2])})
        safety_count == Cardinality({p \in (1..3) \X safety_keywords : Contains(texts[p[1]], p[2])})
        total_mentions == risk_count + safety_count
    IN  IF risk_count = 0 /\ safety_count = 0 THEN Rat(5, 1)
        ELSE Rat(total_mentions + 9 * safety_count, total_mentions)

\* AdvancedRiskManager._calculate_risk_score: 1 + (risk_count / total_mentions) * 9,
\* each keyword counted once per text in which it occurs
CalculateRiskScore(conservative, aggressive, neutral) ==
    LET risk_keywords == {<<"h","i","g","h"," ","r","i","s","k">>, <<"v","o","l","a","t","i","l","e">>, <<"u","n","c","e","r","t","a","i","n","t","y">>, <<"d","a","n","g","e","r">>, <<"w","a","r","n","i","n","g">>, <<"c","a","u","t","i","o","n">>}
        safety_keywords == {<<"s","a","f","e">>, <<"s","t","a","b","l","e">>, <<"c","o","n","s","e","r","v","a","t","i","v","e">>, <<"l","o","w"," ","r","i","s","k">>, <<"d","e","f","e","n","s","i","v","e">>}
        texts == <<Lower(conservative), Lower(aggressive), Lower(neutral)>>
        risk_count == Cardinality({p \in (1..3) \X risk_keywords : Contains(texts[p[1]], p[2])})
        safety_count == Cardinality({p \in (1..3) \X safety_keywords : Contains(texts[p[1]], p[2])})
        total_mentions == risk_count + safety_count
    IN  IF risk_count = 0 /\ safety_count = 0 THEN Rat(5, 1)
        ELSE Rat(total_mentions + 9 * risk_count, total_mentions)

\* AdvancedRiskManager._calculate_risk_metrics and _generate_final_recommendation
\* on the final-round texts of the three analysts; _extract_confidence is the
\* enhanced extractor without its default, _categorize_risk the thresholds 3 and 6
ApplyCalculateRiskMetrics ==
    /\ fcall = NoCall
    /\ \E conservative \in {<<"v","o","l","a","t","i","l","e"," ","u","n","c","e","r","t","a","i","n","t","y">>, <<"P","o","s","i","t","i","o","n"," ","s","i","z","e",":"," ","1","0","%">>},
          aggressive \in {<<"s","a","f","e"," ","s","t","a","b","l","e"," ","d","e","f","e","n","s","i","v","e"," ","l","o","w"," ","r","i","s","k">>, <<"c","o","n","f","i","d","e","n","c","e",":"," ","1","5","0","%">>},
          neutral \in SignalTexts :
        LET extract_confidence(analysis) ==
                LET match == FirstSearch(analysis, ConfidencePatterns)
                IN  IF match # NoMatch THEN NormalizeConfidence(Float(Group(analysis, match))) ELSE NoneNum
            recommended == RecommendedPositionSize(neutral)
            risk_score == CalculateRiskScore(conservative, aggressive, neutral)
            risk_category == IF Geq(Rat(3, 1), risk_score) THEN <<"L","o","w"," ","R","i","s","k">>
                             ELSE IF Geq(Rat(6, 1), risk_score) THEN <<"M","e","d","i","u","m"," ","R","i","s","k">>
                             ELSE <<"H","i","g","h"," ","R","i","s","k">>
        IN  fcall' = [fn |-> "calculate_risk_metrics",
                      conservative |-> conservative, aggressive |-> aggressive, neutral |-> neutral,
                      risk_metrics |->
                          [position_size_recommendations |->
                              [conservative |-> AdvancedExtractPositionSize(conservative),
                               aggressive |-> AdvancedExtractPositionSize(aggressive),
                               neutral |-> AdvancedExtractPositionSize(neutral),
                               recommended |-> recommended],
                           confidence_levels |->
                              [conservative |-> extract_confidence(conservative),
                               aggressive |-> extract_confidence(aggressive),
                               neutral |-> extract_confidence(neutral)],
                           risk_score |-> risk_score,
                           risk_category |-> risk_category],
                      final_recommendation |->
                          [position_size |-> recommended, risk_score |-> risk_score, risk_category |-> risk_category]]
    /\ UNCHANGED <<cfg, inp, pc, state, log, generation_errors, store, memo>>

\* chief_strategist_node builds the context, ChiefStrategist.analyze the
\* message the model is invoked with (its closing request, a fixed text, is
\* cut after the first line)
ChiefStrategistAnalyze ==
    /\ fcall = NoCall
    /\ \E fundamental_analysis \in AnalystTexts, memory \in BOOLEAN,
          research_debate \in [bull_analysis : DebateTexts, bear_analysis : DebateTexts, debate_synthesis : DebateTexts]
                              \cup {DisabledResearchDebate} :
        LET context == ("ticker" :> <<"T">>) @@ ("fundamental_analysis" :> fundamental_analysis)
                       @@ ("technical_analysis" :> <<"U","p","t","r","e","n","d">>) @@ ("sentiment_analysis" :> <<"N","e","w","s"," ","f","l","o","w"," ","p","o","s","i","t","i","v","e">>)
                       @@ ("bull_analysis" :> research_debate.bull_analysis)
                       @@ ("bear_analysis" :> research_debate.bear_analysis)
                       @@ ("debate_synthesis" :> research_debate.debate_synthesis)
                       @@ (IF memory THEN "memory_context" :> <<"N","o"," ","h","i","s","t","o","r","i","c","a","l"," ","c","o","n","t","e","x","t"," ","a","v","a","i","l","a","b","l","e">> ELSE EmptyMap)
            prompt == <<"A","s"," ","C","h","i","e","f"," ","I","n","v","e","s","t","m","e","n","t"," ","S","t","r","a","t","e","g","i","s","t",","," ","p","l","e","a","s","e"," ","s","y","n","t","h","e","s","i","z","e"," ","t","h","e"," ","f","o","l","l","o","w","i","n","g"," ","a","n","a","l","y","s","e","s"," ","f","o","r"," ">>
                      \o Get(context, "ticker", <<"t","h","i","s"," ","s","t","o","c","k">>)
                      \o <<":", "\n", "\n">> \o <<"F","U","N","D","A","M","E","N","T","A","L"," ","A","N","A","L","Y","S","I","S",":">> \o <<"\n">>
                      \o Get(context, "fundamental_analysis", <<"N","o"," ","f","u","n","d","a","m","e","n","t","a","l"," ","a","n","a","l","y","s","i","s"," ","a","v","a","i","l","a","b","l","e">>)
                      \o <<"\n", "\n">> \o <<"T","E","C","H","N","I","C","A","L"," ","A","N","A","L","Y","S","I","S",":">> \o <<"\n">>
                      \o Get(context, "technical_analysis", <<"N","o"," ","t","e","c","h","n","i","c","a","l"," ","a","n","a","l","y","s","i","s"," ","a","v","a","i","l","a","b","l","e">>)
                      \o <<"\n", "\n">> \o <<"S","E","N","T","I","M","E","N","T"," ","A","N","A","L","Y","S","I","S",":">> \o <<"\n">>
                      \o Get(context, "sentiment_analysis", <<"N","o"," ","s","e","n","t","i","m","e","n","t"," ","a","n","a","l","y","s","i","s"," ","a","v","a","i","l","a","b","l","e">>)
                      \o <<"\n", "\n">> \o <<"P","l","e","a","s","e"," ","p","r","o","v","i","d","e",":">>
        IN  fcall' = [fn |-> "chief_strategist_analyze", research_debate |-> research_debate,
                      context |-> context, prompt |-> prompt]
    /\ UNCHANGED <<cfg, inp, pc, state, log, generation_errors, store, memo>>

NextSignals ==
    \/ ApplyBasicExtractConfidenceScore
    \/ ApplyEnhancedExtractConfidenceScore
    \/ ApplyCalculateRiskMetrics
    \/ ChiefStrategistAnalyze

SpecSignals == InitMemory /\ [][NextSignals]_vars

\* ------------------------------------------------------------------------
\* Properties of the signals
\* ------------------------------------------------------------------------
\* the value of float(number) / scale
Scaled(number, scale) == Rat(Float(number).n, Float(number).d * scale)

\* C24: in the basic and in the enhanced confidence extractor a matched
\* percent form 'confidence: NN%' gives NN/100 and a matched ten-scale form
\* 'Confidence level of N/10' gives N/10, for every number; a text without
\* a confidence phrase gives 0.7 in the enhanced and no value in the basic one.
C24_ConfidenceNormalization ==
    fcall.fn \in {"basic_confidence_score", "enhanced_confidence_score"} =>
        /\ \A number \in {<<"0">>, <<"5">>, <<"7">>, <<"8","5">>, <<"1","5","0">>} :
            /\ fcall.analysis = <<"c","o","n","f","i","d","e","n","c","e",":"," ">> \o number \o <<"%">> => fcall.result = Scaled(number, 100)
            /\ fcall.analysis = <<"C","o","n","f","i","d","e","n","c","e"," ","l","e","v","e","l"," ","o","f"," ">> \o number \o <<"/","1","0">> /\ fcall.result # NoneNum
                   => fcall.result = Scaled(number, 10)
        /\ fcall.analysis = <<"N","o"," ","c","l","e","a","r"," ","v","i","e","w">> =>
               fcall.result = IF fcall.fn = "enhanced_confidence_score" THEN DefaultConfidence ELSE NoneNum

\* C25: the confidence given by the basic extractor, the enhanced extractor and
\* the extractor of the risk debate is absent or lies in [0, 1].
InUnitInterval(value) == value = NoneNum \/ (value.n >= 0 /\ value.n <= value.d)

C25_ConfidenceInUnitInterval ==
    /\ fcall.fn \in {"basic_confidence_score", "enhanced_confidence_score"} => InUnitInterval(fcall.result)
    /\ fcall.fn = "calculate_risk_metrics" =>
           \A side \in {"conservative", "aggressive", "neutral"} :
               InUnitInterval(fcall.risk_metrics.confidence_levels[side])

\* the number of keywords of the set found in the three texts of the call,
\* each counted once for every text that contains it
Mentions(keywords) ==
    Cardinality({k \in keywords : Contains(Lower(fcall.conservative), k)})
    + Cardinality({k \in keywords : Contains(Lower(fcall.aggressive), k)})
    + Cardinality({k \in keywords : Contains(Lower(fcall.neutral), k)})

RiskMentions == Mentions({<<"h","i","g","h"," ","r","i","s","k">>, <<"v","o","l","a","t","i","l","e">>, <<"u","n","c","e","r","t","a","i","n","t","y">>, <<"d","a","n","g","e","r">>, <<"w","a","r","n","i","n","g">>, <<"c","a","u","t","i","o","n">>})

SafetyMentions == Mentions({<<"s","a","f","e">>, <<"s","t","a","b","l","e">>, <<"c","o","n","s","e","r","v","a","t","i","v","e">>, <<"l","o","w"," ","r","i","s","k">>, <<"d","e","f","e","n","s","i","v","e">>})

\* C26: the risk score of the three analyst texts is 5 with category Medium
\* when no risk and no safety keyword occurs, else 1 + 9 * risk / (risk +
\* safety); it lies in [1, 10]; the final recommendation reports that score
\* with the category Low up to 3, Medium up to 6 and High above.
C26_RiskScore ==
    fcall.fn = "calculate_risk_metrics" =>
        LET score == fcall.final_recommendation.risk_score
            category == fcall.final_recommendation.risk_category
        IN  /\ score = fcall.risk_metrics.risk_score
            /\ category = fcall.risk_metrics.risk_category
            /\ IF RiskMentions + SafetyMentions = 0
               THEN score = Rat(5, 1) /\ category = <<"M","e","d","i","u","m"," ","R","i","s","k">>
               ELSE score.n * (RiskMentions + SafetyMentions) = score.d * (10 * RiskMentions + SafetyMentions)
            /\ score.n >= score.d /\ score.n <= 10 * score.d
            /\ category = <<"L","o","w"," ","R","i","s","k">> <=> score.n <= 3 * score.d
            /\ category = <<"M","e","d","i","u","m"," ","R","i","s","k">> <=> (score.n > 3 * score.d /\ score.n <= 6 * score.d)
            /\ category = <<"H","i","g","h"," ","R","i","s","k">> <=> score.n > 6 * score.d

\* two risk keywords against seven safety keywords: the score is exactly 3 and
\* the category Low
C26_Witness ==
    /\ fcall.fn = "calculate_risk_metrics"
    /\ RiskMentions = 2
    /\ SafetyMentions = 7
    /\ fcall.final_recommendation.risk_score = Rat(3, 1)
    /\ fcall.final_recommendation.risk_category = <<"L","o","w"," ","R","i","s","k">>

\* C27: the text from which the chief strategist generates contains the bull
\* analysis, the bear analysis and the debate synthesis of the research
\* debate, so that other debate outputs give another text.
C27_ChiefInputHasDebate ==
    fcall.fn = "chief_strategist_analyze" =>
        /\ Contains(fcall.prompt, fcall.research_debate.bull_analysis)
        /\ Contains(fcall.prompt, fcall.research_debate.bear_analysis)
        /\ Contains(fcall.prompt, fcall.research_debate.debate_synthesis)

\* C30: the position size of the final recommendation is the percentage
\* extracted from the neutral analyst's text whenever one was extracted, 0
\* included, and 5.0 only when none was; the sizes of the other two analysts
\* play no part.
C30_PositionSizeFromNeutral ==
    fcall.fn = "calculate_risk_metrics" =>
        LET sizes == fcall.risk_metrics.position_size_recommendations
        IN  fcall.final_recommendation.position_size =
                IF sizes.neutral # NoneNum THEN sizes.neutral ELSE DefaultPositionSize

====
